---- MODULE Spec2Model ----
(***************************************************************************)
(* Webhook event pipeline of the billing service: deduplicated ingestion   *)
(* (core/views.py), the Celery task that runs tracked dispatch and applies *)
(* the Skip/Retry policy (core/tasks.py), the handler registry and the two *)
(* dispatch modes (core/stripe/event_handler.py), the retention sweep, and *)
(* the subscription handlers that the pipeline drives.                     *)
(***************************************************************************)
EXTENDS Integers, Sequences, FiniteSets, Bags, TLC

\* ------------------------------------------------------------------ bounds
\* number of HTTP deliveries the provider makes in one behaviour
MaxDeliveries == 3
\* number of faults (worker crash, failed database statement) in one behaviour
MaxFaults == 1
\* number of untracked dispatch passes started in one behaviour
MaxUntracked == 1
\* rows of the table scheduled_events
MaxScheduled == 2
\* runs of process_scheduled_events started in one behaviour
MaxRuns == 3
\* the latest time the clock reaches
MaxClock == 2
\* rows one poller run claims at most: the slice qs[:100], scaled to the
\* backlog above
BatchLimit == 1
\* calls of the entitlement services in one behaviour
MaxOps == 4
\* the highest usage_count an entitlement reaches
MaxUsage == 1
\* calls of Purchase.refund each caller makes in one behaviour
MaxRefunds == 2
\* runs of a purchase handler each worker makes in one behaviour
MaxPurchaseRuns == 2
\* the highest usage_limit of the metered entitlement
MaxLimit == 2
\* calls of increment_usage each caller makes in one behaviour
MaxCalls == 3

\* ------------------------------------------------------- program constants
\* @shared_task(bind=True, max_retries=5, ...) of process_webhook_event
MaxRetriesMut == 5 - 1
max_retries == 5
\* settings.SCHEDULED_EVENT_MAX_ATTEMPTS
max_attempts == 5
\* str(error)[:500]
ErrorLimit == 500

EventIds == {"evt_1", "evt_2"}
Workers == {"w1", "w2"}
\* the workers are interchangeable: a message goes to the first idle one
Rank(w) == IF w = "w1" THEN 1 ELSE 2
Requests == 1..MaxDeliveries
SubId == "sub_1"
PriceId == "price_pro_monthly"

\* exceptions a handler can raise (core/exceptions.py); "Exception" is any
\* unclassified exception, "none" a normal return
Raised == {"WebhookSkip", "WebhookRetry", "WebhookInfrastructureError", "Exception"}
NoExc == "none"

\* WebhookInfrastructureError is a subclass of WebhookRetry, and neither is a
\* WebhookSkip: isinstance(exc, WebhookSkip)
IsWebhookSkipNever(exc) == FALSE
IsWebhookSkipAlsoRetry(exc) == exc \in {"WebhookSkip", "WebhookRetry"}
IsWebhookSkip(exc) == exc = "WebhookSkip"

\* ---------------------------------------------------------------- registry
\* WebhookHandler.__handlers__ after import: the event types of the run and
\* their handlers in registration order.  "test.tracked" is a type with two
\* handlers, the first with the default __atomic__ = True and the second
\* with __atomic__ = False; "unknown.type" has no handler.
EventTypes ==
    {"test.tracked", "customer.subscription.created",
     "customer.subscription.updated", "unknown.type"}

GenericHandlers == {"TrackedA", "TrackedB"}
HandlerNames ==
    GenericHandlers \cup {"HandleSubscriptionCreated", "HandleSubscriptionUpdated"}

handlers_for(event_type) ==
    IF event_type = "test.tracked" THEN <<"TrackedA", "TrackedB">>
    ELSE IF event_type = "customer.subscription.created"
         THEN <<"HandleSubscriptionCreated">>
    ELSE IF event_type = "customer.subscription.updated"
         THEN <<"HandleSubscriptionUpdated">>
    ELSE <<>>

\* handler.__atomic__
AtomicMut(h) == FALSE
Atomic(h) == h # "TrackedB"

\* the event types the provider sends under each event id, and the payloads
TypesOf(id) ==
    IF id = "evt_1"
    THEN {"test.tracked", "customer.subscription.updated", "unknown.type"}
    ELSE {"customer.subscription.created"}
PayloadStatuses == {"active", "canceled"}
PayloadsOf(t) ==
    IF t = "customer.subscription.updated" THEN PayloadStatuses
    ELSE IF t = "customer.subscription.created" THEN {"active"}
    ELSE {"-"}
\* the events of one behaviour are either subscription events or events of
\* the other types
Family(t) ==
    IF t \in {"customer.subscription.created", "customer.subscription.updated"}
    THEN "subscription" ELSE "other"

\* settings.STRIPE_PRICE_TO_FEATURES.get(price_id, [])
get_features_for_price(price_id) ==
    IF price_id \in {"price_pro_monthly", "price_pro_yearly"}
    THEN {"pro", "api_access", "priority_support"}
    ELSE IF price_id \in {"price_basic_monthly", "price_basic_yearly"}
    THEN {"basic"}
    ELSE {}

\* Subscription.is_active
is_active(status) == status \in {"active", "trialing", "past_due"}

\* ------------------------------------------------------------------- state
VARIABLES
    webhook_events,   \* table webhook_events: set of rows
    nextPk,           \* next primary key of webhook_events
    handler_results,  \* table webhook_handler_results: set of rows
    requests,         \* the HTTP deliveries, each at its position in stripe_webhook
    queue,            \* task messages of process_webhook_event (a bag)
    workers,          \* each worker's position in process_webhook_event
    retired,          \* event ids older than the provider's redelivery window
    customer,         \* TRUE when the local Customer row exists
    subscriptions,    \* table subscriptions: set of rows
    entitlements,     \* table entitlements: set of rows
    ledger,           \* committed writes of each handler for each event id
    invoked,          \* invocations of each handler for each event id
    succeeded,        \* normal returns of each handler for each event id
    failed,           \* raises of each handler for each event id
    onlyRetry,        \* the handler has so far raised WebhookRetry every time
    staleInvoke,      \* a handler was invoked while its result row was completed
    passes,           \* tracked dispatch passes started for each event id
    lastPass,         \* outcome of the latest finished task run for each event id
    enqueued,         \* process_webhook_event.delay calls for each event id
    retryCalls,       \* self.retry calls for each event id
    purged,           \* event ids whose row the retention sweep deleted
    lostUnprocessed,  \* event ids whose row was deleted while unprocessed
    faults,           \* worker crashes and failed statements so far
    upass,            \* the untracked dispatch pass (dispatch_event)
    ucount,           \* untracked passes started so far
    observed,         \* calls of each id that created the row, found it by the
                      \* existence check (duplicate) or by IntegrityError (race)
    family,           \* the family of the events delivered in this behaviour
    useen,            \* an untracked pass has ended at its first handler's raise
    scheduled_events, \* table scheduled_events: set of committed rows
    is_postgres,      \* settings.IS_POSTGRES
    clock,            \* timezone.now()
    pollers,          \* each run of process_scheduled_events at its position
    txn,              \* the subscription handler that dispatch is running
    sweep,            \* the periodic task that is at work on the subscription
    ent_rows,         \* table entitlements with all the columns the services use
    ent_ops,          \* calls of the entitlement services so far (their clock)
    ent_last,         \* the latest call of an entitlement service and its result
    ent_sub,          \* status and price of the subscription sub_1
    replay,           \* two events of sub_1 handled in their two orders
    usage,            \* a metered entitlement and the callers of increment_usage
    conc_db,          \* the committed subscription row and its active features
    conc_h,           \* the handlers that run concurrently for one subscription
    conc_init,        \* the committed state before the concurrent handlers ran
    purchases,        \* table purchases: set of committed rows
    refunders,        \* the callers of Purchase.refund, each at its position
    buyers            \* the handlers that record purchases, each at its position

dbVars == <<webhook_events, nextPk, handler_results, customer, subscriptions,
            entitlements, ledger>>
ghostVars == <<invoked, succeeded, failed, onlyRetry, staleInvoke, passes,
               lastPass, enqueued, retryCalls, purged, lostUnprocessed>>
vars == <<webhook_events, nextPk, handler_results, requests, queue, workers,
          retired, customer, subscriptions, entitlements, ledger, invoked,
          succeeded, failed, onlyRetry, staleInvoke, passes, lastPass, enqueued,
          retryCalls, purged, lostUnprocessed, faults, upass, ucount,
          observed, family, useen, scheduled_events, is_postgres, clock,
          pollers, txn, sweep, ent_rows, ent_ops, ent_last, ent_sub, usage, replay,
          conc_db,
          conc_h, conc_init, purchases, refunders, buyers>>
schedVars == <<scheduled_events, is_postgres, clock, pollers>>
subVars == <<txn, sweep>>
entVars == <<ent_rows, ent_ops, ent_last, ent_sub, usage, replay>>
concVars == <<conc_db, conc_h, conc_init>>
purVars == <<purchases, refunders, buyers>>
svcVars == <<entVars, concVars, purVars>>
pipeVars == <<webhook_events, nextPk, handler_results, requests, queue, workers,
              retired, ledger, invoked, succeeded, failed, onlyRetry,
              staleInvoke, passes, lastPass, enqueued, retryCalls, purged,
              lostUnprocessed, faults, upass, ucount, observed, family, useen>>

NullEvent == [pk |-> 0, stripe_event_id |-> "", event_type |-> "",
              payload |-> "-", processed |-> FALSE, processed_at |-> FALSE,
              old |-> FALSE]
IdleWorker == [pc |-> "idle", id |-> "", retries |-> 0, event |-> NullEvent,
               idx |-> 0, exc |-> NoExc, raised |-> NoExc, ctx |-> "",
               calls |-> <<>>, ret |-> -1]
NewRequest == [pc |-> "new", id |-> "", type |-> "", payload |-> "-",
               response |-> 0]
\* Response(status=200): the answer of every branch after the signature check
DoneRequestMut == [pc |-> "done", id |-> "", type |-> "", payload |-> "-",
                   response |-> 500]
DoneRequest == [pc |-> "done", id |-> "", type |-> "", payload |-> "-",
                response |-> 200]
IdlePass == [pc |-> "idle", type |-> "", idx |-> 0, calls |-> <<>>,
             exc |-> NoExc, raised |-> NoExc, ret |-> -1,
             writes |-> [h \in GenericHandlers |-> 0]]

Zero == [id \in EventIds |-> [h \in HandlerNames |-> 0]]

Pollers == {"p1", "p2"}
ScheduledPks == 1..MaxScheduled
\* ScheduledEvent.last_error = models.TextField(blank=True): a text is its
\* content and its length
NoError == [msg |-> "", len |-> 0]
IdlePoller(run) ==
    [pc |-> "idle", run |-> run, now |-> 0, pending |-> <<>>, i |-> 0,
     saved |-> {}, failed_events |-> <<>>, j |-> 0, broken |-> FALSE]
NoWarning == [from |-> "", to |-> ""]
IdleTxn == [pc |-> "idle", handler |-> "", status |-> "", exc |-> NoExc,
            subs |-> {}, ents |-> {}, warned |-> NoWarning]
IdleSweep == [pc |-> "idle", task |-> "", read |-> "", status |-> "",
              warned |-> NoWarning]

PipelineInit ==
    /\ webhook_events = {}
    /\ nextPk = 1
    /\ handler_results = {}
    /\ requests = [r \in Requests |-> NewRequest]
    /\ queue = EmptyBag
    /\ workers = [w \in Workers |-> IdleWorker]
    /\ retired = {}
    /\ customer = FALSE
    /\ subscriptions = {}
    /\ entitlements = {}
    /\ ledger = Zero
    /\ invoked = Zero
    /\ succeeded = Zero
    /\ failed = Zero
    /\ onlyRetry = [id \in EventIds |-> [h \in HandlerNames |-> TRUE]]
    /\ staleInvoke = FALSE
    /\ passes = [id \in EventIds |-> 0]
    /\ lastPass = [id \in EventIds |-> "none"]
    /\ enqueued = [id \in EventIds |-> 0]
    /\ retryCalls = [id \in EventIds |-> 0]
    /\ purged = {}
    /\ lostUnprocessed = {}
    /\ faults = 0
    /\ upass = IdlePass
    /\ ucount = 0
    /\ observed = [id \in EventIds |-> [created |-> 0, duplicate |-> 0, race |-> 0]]
    /\ family = "none"
    /\ useen = FALSE

\* no scheduled event is stored and no poller runs
SchedIdle ==
    /\ scheduled_events = {}
    /\ is_postgres = TRUE
    /\ clock = 1
    /\ pollers = [p \in Pollers |-> IdlePoller(0)]

\* no handler or sweep is at work on the subscription
SubIdle ==
    /\ txn = IdleTxn
    /\ sweep = IdleSweep

\* no entitlement row exists and no service was called
NoCall ==
    [op |-> "none", customer |-> "", feature |-> "", subscription |-> "",
     desired |-> {}, reason |-> "", pk |-> 0, ret |-> 0, log |-> "",
     status |-> "", price |-> "", was |-> [status |-> "", price |-> ""]]
\* the callers of Entitlement.increment_usage; seen is usage_count of the
\* instance a caller holds, ret what its latest call returned
UsageCallers == {"u1", "u2"}
IdleCaller == [pc |-> "idle", seen |-> 0, ret |-> "none", runs |-> 0]
\* usage_limit = models.PositiveIntegerField(null=True): None is 0 here, the
\* two are the same to `if self.usage_limit`
Metered(limit, count) ==
    [row |-> [usage_limit |-> limit, usage_count |-> count],
     calls |-> [c \in UsageCallers |-> IdleCaller]]
\* no pair of events is being handled in its two orders
NoReplay ==
    [pc |-> "idle", events |-> <<>>, done |-> 0,
     fwd |-> [sub |-> [status |-> "", price |-> ""], rows |-> {}, now |-> 0],
     rev |-> [sub |-> [status |-> "", price |-> ""], rows |-> {}, now |-> 0]]
EntIdle ==
    /\ usage = Metered(0, 0)
    /\ replay = NoReplay
    /\ ent_rows = {}
    /\ ent_ops = 0
    /\ ent_last = NoCall
    /\ ent_sub = [status |-> "incomplete", price |-> "price_1"]

\* the handlers that run concurrently for the one subscription
ConcHandlers == {"h1", "h2"}
NoRow == [status |-> "", paused_at |-> FALSE]
IdleConc ==
    [pc |-> "idle", handler |-> "", status |-> "", obj |-> NoRow, row |-> NoRow,
     features |-> {}]
\* the subscription is active with the features of its price and no handler
\* runs
ConcIdle ==
    /\ conc_db = [row |-> [status |-> "active", paused_at |-> FALSE],
                  features |-> get_features_for_price(PriceId)]
    /\ conc_h = [h \in ConcHandlers |-> IdleConc]
    /\ conc_init = conc_db

\* the callers of Purchase.refund and the handlers that record purchases
Refunders == {"r1", "r2"}
Buyers == {"b1", "b2"}
\* amount: the refund of the latest call; seen: amount_refunded of the
\* instance the call is made on; total: the refunds applied so far
IdleRefunder == [pc |-> "idle", amount |-> 0, seen |-> 0, total |-> 0, runs |-> 0]
\* event: the payload being handled; line: the invoice line the handler is
\* at; pending: the rows its open transaction inserted; updated: the rows
\* its open transaction locked and rewrote; met: what its latest lookup or
\* insert ran into
NoPurchaseEvent == [type |-> "", id |-> "", customer |-> "", mode |-> "",
                    payment_status |-> "", lines |-> <<>>]
IdleBuyer == [pc |-> "idle", event |-> NoPurchaseEvent, line |-> 0,
              pending |-> {}, updated |-> {}, met |-> "", runs |-> 0]
\* no purchase is recorded and nobody is at work on the table
PurIdle ==
    /\ purchases = {}
    /\ refunders = [r \in Refunders |-> IdleRefunder]
    /\ buyers = [b \in Buyers |-> IdleBuyer]

SvcIdle == EntIdle /\ ConcIdle /\ PurIdle

Init == PipelineInit /\ SchedIdle /\ SubIdle /\ SvcIdle

\* --------------------------------------------------------------- ingestion
EventRows(id) == {e \in webhook_events : e.stripe_event_id = id}

\* WebhookEvent.objects.filter(stripe_event_id=event.id).exists()
EventExists(id) == EventRows(id) # {}

\* unique=True on stripe_event_id: the insert raises IntegrityError when a row
\* with the id is already stored
ViolatesUniqueMut(id) == FALSE
ViolatesUnique(id) == EventRows(id) # {}

\* the event a delivery of `id` carries: a redelivery carries the same
\* type and payload as the deliveries before it
Known(id) ==
    {<<e.event_type, e.payload>> : e \in EventRows(id)} \cup
    {<<requests[q].type, requests[q].payload>> :
        q \in {x \in Requests : requests[x].id = id}}
Carried(id) ==
    IF Known(id) # {} THEN Known(id)
    ELSE {<<t, p>> : t \in {x \in TypesOf(id) : family \in {"none", Family(x)}},
                     p \in PayloadStatuses \cup {"-"}}

\* a duplicate is answered with 200 and the call ends
Respond(r, id, what) ==
    /\ requests' = [requests EXCEPT ![r] = DoneRequest]
    /\ observed' = [observed EXCEPT ![id][what] = @ + 1]

\* stripe_webhook, up to the existence check: a delivery with a valid
\* signature arrives and the view looks the id up
Receive(r) ==
    /\ requests[r].pc = "new"
    /\ \A q \in Requests : q < r => requests[q].pc # "new"
    /\ upass.pc = "idle"
    /\ \E id \in EventIds \ retired :
       \E c \in Carried(id) :
          /\ c[2] \in PayloadsOf(c[1])
          /\ family' = Family(c[1])
          /\ IF EventExists(id)
             THEN Respond(r, id, "duplicate")
             ELSE /\ requests' = [requests EXCEPT ![r] =
                        [pc |-> "create", id |-> id, type |-> c[1],
                         payload |-> c[2], response |-> 0]]
                  /\ UNCHANGED observed
    /\ UNCHANGED <<dbVars, ghostVars, queue, workers, retired, faults, upass, ucount,
                   useen, schedVars, subVars, svcVars>>

\* WebhookEvent.objects.create(...) with its IntegrityError handler
Create(r) ==
    /\ requests[r].pc = "create"
    /\ LET req == requests[r] IN
       IF ViolatesUnique(req.id)
       THEN /\ Respond(r, req.id, "race")
            /\ UNCHANGED <<webhook_events, nextPk>>
       ELSE /\ webhook_events' = webhook_events \cup
                  {[pk |-> nextPk, stripe_event_id |-> req.id,
                    event_type |-> req.type, payload |-> req.payload,
                    processed |-> FALSE, processed_at |-> FALSE, old |-> FALSE]}
            /\ nextPk' = nextPk + 1
            /\ requests' = [requests EXCEPT ![r].pc = "created"]
            /\ observed' = [observed EXCEPT ![req.id]["created"] = @ + 1]
    /\ UNCHANGED <<handler_results, customer, subscriptions, entitlements, ledger,
                   ghostVars, queue, workers, retired, faults, upass, ucount, family,
                   useen, schedVars, subVars, svcVars>>

\* process_webhook_event.delay(event.id) and the 200 response
Enqueue(r) ==
    /\ requests[r].pc = "created"
    /\ queue' = queue (+) SetToBag({[id |-> requests[r].id, retries |-> 0]})
    /\ enqueued' = [enqueued EXCEPT ![requests[r].id] = @ + 1]
    /\ requests' = [requests EXCEPT ![r] = DoneRequest]
    /\ UNCHANGED <<dbVars, invoked, succeeded, failed, onlyRetry, staleInvoke,
                   passes, lastPass, retryCalls, purged, lostUnprocessed,
                   workers, retired, faults, upass, ucount, observed, family,
                   useen, schedVars, subVars, svcVars>>

stripe_webhook == \E r \in Requests : Receive(r) \/ Create(r) \/ Enqueue(r)

\* ---------------------------------------------------------------- handlers
\* What one invocation of handler.handle(data) commits.  Under
\* transaction.atomic() a raise rolls the handler's writes back; without it
\* the writes made before the raise stay.
CommittedMut(atomic, exc, wrote) == wrote
Committed(atomic, exc, wrote) ==
    IF exc = NoExc THEN TRUE ELSE (~atomic) /\ wrote

\* the outcomes of a handler whose body is not modelled: it returns, or it
\* raises after having written (wrote) or before
GenericOutcomes ==
    {[exc |-> NoExc, wrote |-> TRUE]} \cup
    [exc : Raised, wrote : BOOLEAN]

SubRows == {s \in subscriptions : s.stripe_subscription_id = SubId}

ActiveFeatures(ents) ==
    {e.feature : e \in {x \in ents : x.subscription = SubId /\ x.is_active}}

\* entitlement.services.grant: get_or_create on (customer, feature,
\* subscription); an inactive row is re-activated, never duplicated
grant(ents, feature) ==
    IF \E e \in ents : e.subscription = SubId /\ e.feature = feature
    THEN {IF e.subscription = SubId /\ e.feature = feature
          THEN [e EXCEPT !.is_active = TRUE] ELSE e : e \in ents}
    ELSE ents \cup {[subscription |-> SubId, feature |-> feature, is_active |-> TRUE]}

RECURSIVE grant_all(_, _)
grant_all(ents, features) ==
    IF features = {} THEN ents
    ELSE LET f == CHOOSE x \in features : TRUE
         IN grant_all(grant(ents, f), features \ {f})

\* QuerySet.revoke_all on the active rows of the subscription among `removed`
revoke_all(ents, removed) ==
    {IF e.subscription = SubId /\ e.is_active /\ e.feature \in removed
     THEN [e EXCEPT !.is_active = FALSE] ELSE e : e \in ents}

\* entitlement.services.sync_from_subscription
sync_from_subscription(ents, features) ==
    LET current == ActiveFeatures(ents)
        granted == grant_all(ents, features \ current)
    IN revoke_all(granted, current \ features)

\* entitlement.services.revoke_for_subscription
revoke_for_subscription(ents) == revoke_all(ents, ActiveFeatures(ents))

\* ensure_valid_subscription_model: the payload has its period fields,
\* possibly after the fetch from the provider ("ok"), or has none even after
\* the fetch ("noperiod", WebhookSkip)
Validations == {"ok", "noperiod"}
ValidationExc(v) == IF v = "noperiod" THEN "WebhookSkip" ELSE NoExc

\* what HandleSubscriptionUpdated raises when Subscription.DoesNotExist
MissingOnUpdateMut == "WebhookRetry"
MissingOnUpdate == "WebhookSkip"

\* HandleSubscriptionUpdated.handle, as [exc, subscriptions, entitlements]
HandleSubscriptionUpdated(status, v) ==
    IF v # "ok"
    THEN [exc |-> ValidationExc(v), ctx |-> "", subs |-> subscriptions,
          ents |-> entitlements]
    ELSE IF SubRows = {}
    THEN [exc |-> MissingOnUpdate, ctx |-> "stripe_subscription_id",
          subs |-> subscriptions, ents |-> entitlements]
    ELSE [exc |-> NoExc, ctx |-> "",
          subs |-> {IF s.stripe_subscription_id = SubId
                    THEN [s EXCEPT !.status = status, !.stripe_price_id = PriceId]
                    ELSE s : s \in subscriptions},
          ents |-> IF is_active(status)
                   THEN sync_from_subscription(entitlements, get_features_for_price(PriceId))
                   ELSE revoke_for_subscription(entitlements)]

\* HandleSubscriptionCreated.handle, as [exc, subscriptions, entitlements]
HandleSubscriptionCreated(status, v) ==
    IF v # "ok"
    THEN [exc |-> ValidationExc(v), ctx |-> "", subs |-> subscriptions,
          ents |-> entitlements]
    ELSE IF ~customer
    THEN [exc |-> "WebhookRetry", ctx |-> "stripe_customer_id",
          subs |-> subscriptions, ents |-> entitlements]
    ELSE [exc |-> NoExc, ctx |-> "",
          subs |-> (subscriptions \ SubRows) \cup
                   {[stripe_subscription_id |-> SubId, status |-> status,
                     stripe_price_id |-> PriceId]},
          ents |-> IF is_active(status)
                   THEN sync_from_subscription(entitlements, get_features_for_price(PriceId))
                   ELSE entitlements]

\* the local Customer row is created (accounts sync, outside the pipeline)
CreateCustomer ==
    /\ ~customer
    /\ customer' = TRUE
    /\ UNCHANGED <<webhook_events, nextPk, handler_results, subscriptions,
                   entitlements, ledger, ghostVars, requests, queue, workers,
                   retired, faults, upass, ucount, observed, family,
                   useen, schedVars, subVars, svcVars>>

\* ------------------------------------------------- process_webhook_event
HoldsMessage(w) == workers[w].pc # "idle"

TaskInFlight(id) ==
    \/ \E m \in BagToSet(queue) : m.id = id
    \/ \E w \in Workers : HoldsMessage(w) /\ workers[w].id = id

InFlight(id) ==
    \/ TaskInFlight(id)
    \/ \E r \in Requests : requests[r].id = id /\ requests[r].pc \in {"create", "created"}

\* position after the handler at index i - 1 is done with
AfterHandlerMut(hs, i) == IF i >= Len(hs) THEN "mark_event" ELSE "loop"
AfterHandler(hs, i) == IF i > Len(hs) THEN "mark_event" ELSE "loop"

\* `return 0` for no handlers and `return len(handlers)` after the loop;
\* -1 while dispatch_tracked has not returned
DispatchReturn(hs, i) == IF AfterHandler(hs, i) = "mark_event" THEN Len(hs) ELSE -1

\* `if event.processed: return` at the head of the task
FullyProcessedMut(event) == FALSE
FullyProcessed(event) == event.processed

\* the task starts: WebhookEvent.objects.get, the processed check, and
\* handlers_for at the head of dispatch_tracked
TaskStart(w) ==
    /\ workers[w].pc = "idle"
    /\ \A v \in Workers : Rank(v) < Rank(w) => workers[v].pc # "idle"
    /\ \E m \in BagToSet(queue) :
         /\ queue' = queue (-) SetToBag({m})
         /\ LET rows == EventRows(m.id) IN
            IF rows = {}
            THEN /\ lastPass' = [lastPass EXCEPT ![m.id] = "notfound"]
                 /\ UNCHANGED <<workers, passes>>
            ELSE LET event == CHOOSE e \in rows : TRUE IN
                 IF FullyProcessed(event)
                 THEN /\ lastPass' = [lastPass EXCEPT ![m.id] = "already"]
                      /\ UNCHANGED <<workers, passes>>
                 ELSE /\ workers' = [workers EXCEPT ![w] =
                            [pc |-> AfterHandler(handlers_for(event.event_type), 1),
                             id |-> m.id, retries |-> m.retries, event |-> event,
                             idx |-> 1, exc |-> NoExc, raised |-> NoExc,
                             ctx |-> "", calls |-> <<>>,
                             ret |-> DispatchReturn(handlers_for(event.event_type), 1)]]
                      /\ passes' = [passes EXCEPT ![m.id] = @ + 1]
                      /\ lastPass' = [lastPass EXCEPT ![m.id] = "running"]
    /\ UNCHANGED <<dbVars, invoked, succeeded, failed, onlyRetry, staleInvoke,
                   enqueued, retryCalls, purged, lostUnprocessed, requests,
                   retired, faults, upass, ucount, observed, family,
                   useen, schedVars, subVars, svcVars>>

ResultRows(pk, name) ==
    {r \in handler_results : r.event = pk /\ r.handler_name = name}

\* WebhookHandlerResult.processed = models.BooleanField(default=False)
DefaultProcessedMut == TRUE
DefaultProcessed == FALSE

\* `if result.processed: continue`
AlreadyProcessedMut(result) == FALSE
AlreadyProcessed(result) == result.processed

\* WebhookHandlerResult.objects.get_or_create(event, handler_name) and the
\* check of result.processed
GetOrCreate(w) ==
    /\ workers[w].pc = "loop"
    /\ LET wk == workers[w]
           hs == handlers_for(wk.event.event_type)
           name == hs[wk.idx]
           found == ResultRows(wk.event.pk, name)
           result == IF found = {}
                     THEN [event |-> wk.event.pk, handler_name |-> name,
                           processed |-> DefaultProcessed]
                     ELSE CHOOSE r \in found : TRUE
       IN /\ handler_results' = handler_results \cup {result}
          /\ workers' = [workers EXCEPT ![w] =
                IF AlreadyProcessed(result)
                THEN [wk EXCEPT !.idx = @ + 1, !.pc = AfterHandler(hs, wk.idx + 1),
                                !.ret = DispatchReturn(hs, wk.idx + 1)]
                ELSE [wk EXCEPT !.pc = "handle"]]
    /\ UNCHANGED <<webhook_events, nextPk, customer, subscriptions, entitlements,
                   ledger, ghostVars, requests, queue, retired, faults, upass, ucount, observed, family,
                   useen, schedVars, subVars, svcVars>>

\* what dispatch and dispatch_tracked do with a handler's exception: they do
\* not catch it
PropagatedMut(exc) == NoExc
Propagated(exc) == exc

\* the outcome of handler `name` on `payload` in the current state, as
\* [exc, subs, ents, commit]: commit is the number of writes it commits
Outcomes(name, payload) ==
    IF name = "HandleSubscriptionUpdated"
    THEN {[exc |-> x.exc, ctx |-> x.ctx, subs |-> x.subs, ents |-> x.ents,
           commit |-> IF x.exc = NoExc THEN 1 ELSE 0] :
           x \in {HandleSubscriptionUpdated(payload, v) : v \in Validations}}
    ELSE IF name = "HandleSubscriptionCreated"
    THEN {[exc |-> x.exc, ctx |-> x.ctx, subs |-> x.subs, ents |-> x.ents,
           commit |-> IF x.exc = NoExc THEN 1 ELSE 0] :
           x \in {HandleSubscriptionCreated(payload, v) : v \in Validations}}
    ELSE {[exc |-> g.exc, ctx |-> "", subs |-> subscriptions, ents |-> entitlements,
           commit |-> IF Committed(Atomic(name), g.exc, g.wrote) THEN 1 ELSE 0] :
           g \in GenericOutcomes}

\* handler.handle(data), inside transaction.atomic() when handler.__atomic__
Handle(w) ==
    /\ workers[w].pc = "handle"
    /\ LET wk == workers[w]
           id == wk.id
           name == handlers_for(wk.event.event_type)[wk.idx]
       IN \E o \in Outcomes(name, wk.event.payload) :
            /\ subscriptions' = o.subs
            /\ entitlements' = o.ents
            /\ ledger' = [ledger EXCEPT ![id][name] = @ + o.commit]
            /\ invoked' = [invoked EXCEPT ![id][name] = @ + 1]
            /\ succeeded' = [succeeded EXCEPT ![id][name] =
                                IF o.exc = NoExc THEN @ + 1 ELSE @]
            /\ failed' = [failed EXCEPT ![id][name] =
                                IF o.exc = NoExc THEN @ ELSE @ + 1]
            /\ onlyRetry' = [onlyRetry EXCEPT ![id][name] = @ /\ o.exc = "WebhookRetry"]
            /\ staleInvoke' =
                 (staleInvoke \/ \E r \in ResultRows(wk.event.pk, name) : r.processed)
            /\ workers' = [workers EXCEPT ![w] =
                 [wk EXCEPT !.pc = IF Propagated(o.exc) = NoExc
                                   THEN "mark_result" ELSE "except",
                            !.exc = Propagated(o.exc),
                            !.raised = o.exc,
                            !.ctx = o.ctx,
                            !.calls = Append(@, name)]]
    /\ UNCHANGED <<webhook_events, nextPk, handler_results, customer, passes,
                   lastPass, enqueued, retryCalls, purged, lostUnprocessed,
                   requests, queue, retired, faults, upass, ucount, observed, family,
                   useen, schedVars, subVars, svcVars>>

\* .update(processed=True, processed_at=timezone.now()) on a result row
UpdateProcessedMut(r) == r
UpdateProcessed(r) == [r EXCEPT !.processed = TRUE]

\* WebhookHandlerResult.objects.filter(...).update(processed=True, ...)
MarkResult(w) ==
    /\ workers[w].pc = "mark_result"
    /\ LET wk == workers[w]
           hs == handlers_for(wk.event.event_type)
           name == hs[wk.idx]
       IN /\ handler_results' =
               {IF r.event = wk.event.pk /\ r.handler_name = name
                THEN UpdateProcessed(r) ELSE r : r \in handler_results}
          /\ workers' = [workers EXCEPT ![w] =
               [wk EXCEPT !.idx = @ + 1, !.pc = AfterHandler(hs, wk.idx + 1),
                          !.ret = DispatchReturn(hs, wk.idx + 1)]]
    /\ UNCHANGED <<webhook_events, nextPk, customer, subscriptions, entitlements,
                   ledger, ghostVars, requests, queue, retired, faults, upass, ucount, observed, family,
                   useen, schedVars, subVars, svcVars>>

\* event.processed = True; event.processed_at = now; event.save(update_fields)
SaveProcessed(event) ==
    {IF e.pk = event.pk
     THEN [e EXCEPT !.processed = TRUE, !.processed_at = TRUE] ELSE e :
     e \in webhook_events}

\* dispatch_tracked returned: the event is marked fully processed
MarkEvent(w) ==
    /\ workers[w].pc = "mark_event"
    /\ webhook_events' = SaveProcessed(workers[w].event)
    /\ lastPass' = [lastPass EXCEPT ![workers[w].id] = "processed"]
    /\ workers' = [workers EXCEPT ![w] = IdleWorker]
    /\ UNCHANGED <<nextPk, handler_results, customer, subscriptions, entitlements,
                   ledger, invoked, succeeded, failed, onlyRetry, staleInvoke,
                   passes, enqueued, retryCalls, purged, lostUnprocessed,
                   requests, queue, retired, faults, upass, ucount, observed, family,
                   useen, schedVars, subVars, svcVars>>

\* self.retry(exc=exc): a new message is scheduled while the task's retries
\* are below max_retries, otherwise exc is raised and the task ends
CanRetry(retries) == retries < max_retries

\* the except clauses of the task: WebhookSkip marks the event processed,
\* any other exception calls self.retry
Except(w) ==
    /\ workers[w].pc = "except"
    /\ LET wk == workers[w] IN
       IF IsWebhookSkip(wk.exc)
       THEN /\ webhook_events' = SaveProcessed(wk.event)
            /\ lastPass' = [lastPass EXCEPT ![wk.id] =
                               IF wk.ctx = "" THEN "skipped" ELSE "skipped_not_found"]
            /\ UNCHANGED <<queue, retryCalls>>
       ELSE /\ retryCalls' = [retryCalls EXCEPT ![wk.id] = @ + 1]
            /\ queue' = IF CanRetry(wk.retries)
                        THEN queue (+) SetToBag({[id |-> wk.id, retries |-> wk.retries + 1]})
                        ELSE queue
            /\ lastPass' = [lastPass EXCEPT ![wk.id] =
                               IF CanRetry(wk.retries) THEN "retry" ELSE "exhausted"]
            /\ UNCHANGED webhook_events
    /\ workers' = [workers EXCEPT ![w] = IdleWorker]
    /\ UNCHANGED <<nextPk, handler_results, customer, subscriptions, entitlements,
                   ledger, invoked, succeeded, failed, onlyRetry, staleInvoke,
                   passes, enqueued, purged, lostUnprocessed, requests, retired,
                   faults, upass, ucount, observed, family,
                   useen, schedVars, subVars, svcVars>>

process_webhook_event ==
    \E w \in Workers :
        TaskStart(w) \/ GetOrCreate(w) \/ Handle(w) \/ MarkResult(w)
        \/ MarkEvent(w) \/ Except(w)

\* --------------------------------------------------------- retention sweep
\* an event grows older than 90 days.  The horizon is far longer than the
\* provider's redelivery window and than a task's retries, so an event ages
\* only when nothing is in flight for it, and is not delivered again.
Age(id) ==
    /\ id \notin retired
    /\ EventRows(id) # {}
    /\ ~InFlight(id)
    /\ retired' = retired \cup {id}
    /\ webhook_events' =
         {IF e.stripe_event_id = id THEN [e EXCEPT !.old = TRUE] ELSE e :
          e \in webhook_events}
    /\ UNCHANGED <<nextPk, handler_results, customer, subscriptions, entitlements,
                   ledger, ghostVars, requests, queue, workers, faults, upass, ucount, observed, family,
                   useen, schedVars, subVars, svcVars>>

\* WebhookEvent.objects.filter(created_at__lt=cutoff)
CleanupFilter(e) == e.old

\* cleanup_webhook_events: the filtered events are deleted, and their
\* handler results with them (on_delete=CASCADE)
cleanup_webhook_events ==
    LET doomed == {e \in webhook_events : CleanupFilter(e)} IN
    /\ doomed # {}
    /\ webhook_events' = webhook_events \ doomed
    /\ handler_results' =
         {r \in handler_results : \A e \in doomed : r.event # e.pk}
    /\ purged' = purged \cup {e.stripe_event_id : e \in doomed}
    /\ lostUnprocessed' =
         lostUnprocessed \cup {e.stripe_event_id : e \in {d \in doomed : ~d.processed}}
    /\ UNCHANGED <<nextPk, customer, subscriptions, entitlements, ledger, invoked,
                   succeeded, failed, onlyRetry, staleInvoke, passes, lastPass,
                   enqueued, retryCalls, requests, queue, workers, retired,
                   faults, upass, ucount, observed, family,
                   useen, schedVars, subVars, svcVars>>

\* ------------------------------------------------------ untracked dispatch
\* dispatch_event(event_type, data) is called: handlers_for and the
\* `if not handlers: return 0` branch.  The two dispatch modes share no
\* state, so a behaviour runs its untracked passes before the webhook
\* pipeline starts.
UStart ==
    /\ upass.pc = "idle"
    /\ ucount < MaxUntracked
    /\ \A r \in Requests : requests[r].pc = "new"
    /\ \E t \in {"test.tracked", "unknown.type"} :
         upass' = IF handlers_for(t) = <<>>
                  THEN [IdlePass EXCEPT !.pc = "done", !.type = t, !.ret = 0]
                  ELSE [IdlePass EXCEPT !.pc = "run", !.type = t, !.idx = 1]
    /\ ucount' = ucount + 1
    /\ UNCHANGED <<dbVars, ghostVars, requests, queue, workers, retired, faults,
                   observed, family,
                   useen, schedVars, subVars, svcVars>>

\* one iteration of the loop of WebhookHandler.dispatch; after the last
\* handler the pass returns len(handlers)
UHandle ==
    /\ upass.pc = "run"
    /\ LET hs == handlers_for(upass.type)
           name == hs[upass.idx]
       IN \E g \in GenericOutcomes :
            LET commit == IF Committed(Atomic(name), g.exc, g.wrote) THEN 1 ELSE 0
                exc == Propagated(g.exc)
                last == upass.idx = Len(hs)
            IN upass' = [upass EXCEPT
                  !.calls = Append(@, name),
                  !.writes[name] = @ + commit,
                  !.raised = g.exc,
                  !.exc = exc,
                  !.idx = IF exc = NoExc /\ ~last THEN @ + 1 ELSE @,
                  !.pc = IF exc # NoExc \/ last THEN "done" ELSE "run",
                  !.ret = IF exc = NoExc /\ last THEN Len(hs) ELSE @]
    /\ UNCHANGED <<dbVars, ghostVars, requests, queue, workers, retired, faults,
                   ucount, observed, family,
                   useen, schedVars, subVars, svcVars>>

\* the pass is over: its caller has the return value or the exception
UReturn ==
    /\ upass.pc = "done"
    /\ upass' = IdlePass
    /\ useen' = (useen \/ (upass.raised # NoExc /\ upass.idx = 1
                           /\ Len(handlers_for(upass.type)) = 2))
    /\ UNCHANGED <<dbVars, ghostVars, requests, queue, workers, retired, faults,
                   ucount, observed, family, schedVars, subVars, svcVars>>

dispatch_event == UStart \/ UHandle \/ UReturn

\* ------------------------------------------------------------------ faults
\* a worker dies in the middle of the task; what it committed stays, and the
\* runtime redelivers its message or loses it
Crash(w) ==
    /\ faults < MaxFaults
    /\ workers[w].pc # "idle"
    /\ \E redeliver \in BOOLEAN :
         queue' = IF redeliver
                  THEN queue (+) SetToBag({[id |-> workers[w].id,
                                            retries |-> workers[w].retries]})
                  ELSE queue
    /\ workers' = [workers EXCEPT ![w] = IdleWorker]
    /\ faults' = faults + 1
    /\ UNCHANGED <<dbVars, ghostVars, requests, retired, upass, ucount, observed, family,
                   useen, schedVars, subVars, svcVars>>

\* the UPDATE of the result row fails (the database connection is lost after
\* the handler's transaction committed): the exception reaches the task's
\* `except Exception` clause
UpdateFails(w) ==
    /\ faults < MaxFaults
    /\ workers[w].pc = "mark_result"
    /\ workers' = [workers EXCEPT ![w].pc = "except", ![w].exc = "Exception",
                                  ![w].raised = NoExc]
    /\ faults' = faults + 1
    /\ UNCHANGED <<dbVars, ghostVars, requests, queue, retired, upass, ucount,
                   observed, family, useen, schedVars, subVars, svcVars>>

\* process_webhook_event.delay raises (the broker cannot be reached) or the
\* web process dies before it: the row is stored, in autocommit, and the
\* delivery is answered with an error or not at all
EnqueueFails(r) ==
    /\ faults < MaxFaults
    /\ requests[r].pc = "created"
    /\ requests' = [requests EXCEPT ![r] = [DoneRequest EXCEPT !.response = 500]]
    /\ faults' = faults + 1
    /\ UNCHANGED <<dbVars, ghostVars, queue, workers, retired, upass, ucount,
                   observed, family, useen, schedVars, subVars, svcVars>>

\* the task of an event runs once more after its earlier run is over: the
\* broker delivers the message again (at-least-once delivery), or the task
\* is called again for the id
Redeliver(id) ==
    /\ faults < MaxFaults
    /\ enqueued[id] >= 1
    /\ ~TaskInFlight(id)
    /\ queue' = queue (+) SetToBag({[id |-> id, retries |-> 0]})
    /\ faults' = faults + 1
    /\ UNCHANGED <<dbVars, ghostVars, requests, workers, retired, upass, ucount,
                   observed, family, useen, schedVars, subVars, svcVars>>

\* ------------------------------------------------ process_scheduled_events
\* the messages of the exceptions dispatch_event raises, short and longer
\* than the stored prefix
Errors == {[msg |-> "boom", len |-> 4], [msg |-> "trace", len |-> ErrorLimit + 1]}
\* the messages of the exceptions event.save raises inside the claim
\* transaction: SQLite's "database is locked", and Django's
\* TransactionManagementError once the transaction is marked for rollback
DatabaseLocked == [msg |-> "database is locked", len |-> 18]
BrokenTransaction == [msg |-> "current transaction is broken", len |-> 29]

\* str(error)[:500]
TruncateMut(err) == err
Truncate(err) ==
    [msg |-> err.msg, len |-> IF err.len < ErrorLimit THEN err.len ELSE ErrorLimit]

\* the rows an administrator has stored before the pollers start
ExecuteTimes == 1..MaxClock
InitialAttempts == {0, max_attempts - 1}
InitRows(pk) ==
    {[pk |-> pk, execute_at |-> t, processed |-> FALSE, processed_at |-> FALSE,
      attempts |-> a, last_error |-> NoError] :
      t \in ExecuteTimes, a \in InitialAttempts}

InitSched ==
    /\ PipelineInit
    /\ SubIdle
    /\ SvcIdle
    /\ \E f \in [ScheduledPks -> UNION {InitRows(pk) : pk \in ScheduledPks}] :
         /\ \A pk \in ScheduledPks : f[pk].pk = pk
         /\ scheduled_events = {f[pk] : pk \in ScheduledPks}
    /\ is_postgres \in BOOLEAN
    /\ clock = 1
    /\ pollers = [p \in Pollers |-> IdlePoller(0)]

\* DatabaseFeatures.has_select_for_update: PostgreSQL locks the rows a
\* select_for_update returns until the transaction ends; on SQLite
\* select_for_update has no effect and the database file lock orders the
\* transactions instead
has_select_for_update == is_postgres

PollerRank(p) == IF p = "p1" THEN 1 ELSE 2
\* the poller is inside `with transaction.atomic()`
InTx(p) == pollers[p].pc \in {"dispatch", "commit"}
PksOf(seq) == {seq[k].pk : k \in 1..Len(seq)}

\* the rows whose lock another run's open transaction holds
LockedByOthers(p) ==
    IF has_select_for_update
    THEN UNION {PksOf(pollers[q].pending) : q \in {x \in Pollers \ {p} : InTx(x)}}
    ELSE {}

\* another SQLite transaction has written (it holds the RESERVED lock)
OtherWriter(p) ==
    /\ ~is_postgres
    /\ \E q \in Pollers \ {p} : InTx(q) /\ pollers[q].saved # {} /\ ~pollers[q].broken
\* another SQLite transaction has read and is still open (a SHARED lock)
OtherReader(p) == ~is_postgres /\ \E q \in Pollers \ {p} : InTx(q)

\* now = timezone.now() at the head of the task
PStart(p) ==
    /\ pollers[p].pc = "idle"
    /\ \A q \in Pollers : PollerRank(q) < PollerRank(p) => pollers[q].pc # "idle"
    /\ pollers["p1"].run + pollers["p2"].run < MaxRuns
    /\ pollers' = [pollers EXCEPT ![p] =
          [IdlePoller(pollers[p].run + 1) EXCEPT !.pc = "claim", !.now = clock]]
    /\ UNCHANGED <<dbVars, pipeVars, subVars, svcVars, scheduled_events, is_postgres,
                   clock>>

\* filter(processed=False, execute_at__lte=now, attempts__lt=max_attempts)
DueMut(e, now) == ~e.processed /\ e.execute_at <= now
Due(e, now) == ~e.processed /\ e.execute_at <= now /\ e.attempts < max_attempts

\* .order_by("execute_at"): the orders of `rows` the database may return
Ordered(rows) ==
    {q \in [1..Cardinality(rows) -> rows] :
        /\ \A a, b \in 1..Cardinality(rows) : a < b =>
              /\ q[a] # q[b]
              /\ q[a].execute_at <= q[b].execute_at}

\* qs[:100]
SliceMut(q) == q
Slice(q) == SubSeq(q, 1, IF Len(q) < BatchLimit THEN Len(q) ELSE BatchLimit)

\* select_for_update(skip_locked=True) leaves out the rows another
\* transaction has locked; select_for_update() waits for them
SkipLockedMut(p) == {}
SkipLocked(p) == IF is_postgres THEN LockedByOthers(p) ELSE {}
MustWait(p, rows) ==
    ~is_postgres /\ \E e \in rows : e.pk \in LockedByOthers(p)

\* the position after the rows at indices below i are done with
AfterRow(wk, i) == IF i > Len(wk.pending) THEN "commit" ELSE "dispatch"

\* qs[:100] when the backlog is shorter than the slice, as it is while the
\* poller keeps up: the slice cuts nothing off
BacklogSlice(q) == SubSeq(q, 1, IF Len(q) < MaxScheduled THEN Len(q) ELSE MaxScheduled)

\* pending = list(qs[:100]) inside transaction.atomic(); `within` says that
\* the backlog is within the slice
PClaimWith(p, within) ==
    /\ pollers[p].pc = "claim"
    /\ LET wk == pollers[p]
           due == {e \in scheduled_events : Due(e, wk.now)}
           rows == {e \in due : e.pk \notin SkipLocked(p)}
       IN /\ ~MustWait(p, rows)
          /\ \E q \in Ordered(rows) :
               pollers' = [pollers EXCEPT ![p] =
                  [wk EXCEPT !.pending = IF within THEN BacklogSlice(q) ELSE Slice(q),
                             !.i = 1,
                             !.pc = IF q = <<>> THEN "commit" ELSE "dispatch"]]
    /\ UNCHANGED <<dbVars, pipeVars, subVars, svcVars, scheduled_events, is_postgres,
                   clock>>

\* the claim of a run over a backlog longer than the slice
PClaim(p) == PClaimWith(p, FALSE)

\* the claim of a run over a backlog within the slice
PClaimBacklog(p) == PClaimWith(p, TRUE)

\* one iteration of `for event in pending`: dispatch_event and, when it
\* returns, event.save; an exception of either is kept in failed_events
PDispatch(p) ==
    /\ pollers[p].pc = "dispatch"
    /\ LET wk == pollers[p]
           event == wk.pending[wk.i]
           next == [wk EXCEPT !.i = @ + 1, !.pc = AfterRow(wk, wk.i + 1)]
           fail(err) == [next EXCEPT !.failed_events =
                            Append(@, [pk |-> event.pk, idx |-> wk.i, err |-> err])]
       IN /\ \/ \E err \in Errors : pollers' = [pollers EXCEPT ![p] = fail(err)]
             \/ /\ ~wk.broken /\ ~OtherWriter(p)
                /\ pollers' = [pollers EXCEPT ![p] =
                                  [next EXCEPT !.saved = @ \cup {wk.i}]]
             \/ /\ ~wk.broken /\ OtherWriter(p)
                /\ pollers' = [pollers EXCEPT ![p] =
                                  [fail(DatabaseLocked) EXCEPT !.broken = TRUE]]
             \/ /\ wk.broken
                /\ pollers' = [pollers EXCEPT ![p] = fail(BrokenTransaction)]
    /\ UNCHANGED <<dbVars, pipeVars, subVars, svcVars, scheduled_events, is_postgres,
                   clock>>

\* the position after the claim transaction has ended
AfterCommit(wk) ==
    IF wk.failed_events = <<>> THEN IdlePoller(wk.run)
    ELSE [wk EXCEPT !.pc = "record", !.j = 1]

\* event.save(update_fields=["processed", "processed_at", "attempts"]) with
\* event.attempts += 1 on the object read by the claim
SavedMut(wk) == scheduled_events
Saved(wk) ==
    {IF \E k \in wk.saved : wk.pending[k].pk = e.pk
     THEN LET k == CHOOSE x \in wk.saved : wk.pending[x].pk = e.pk
          IN [e EXCEPT !.processed = TRUE, !.processed_at = TRUE,
                       !.attempts = wk.pending[k].attempts + 1]
     ELSE e : e \in scheduled_events}

\* the end of `with transaction.atomic()`: the saves are committed, or
\* rolled back when a statement failed inside the block, and the row locks
\* are released.  A SQLite commit that writes waits for the other readers.
PCommit(p) ==
    /\ pollers[p].pc = "commit"
    /\ LET wk == pollers[p]
           writes == wk.saved # {} /\ ~wk.broken
       IN /\ writes => ~OtherReader(p)
          /\ scheduled_events' = IF writes THEN Saved(wk) ELSE scheduled_events
          /\ pollers' = [pollers EXCEPT ![p] = AfterCommit(wk)]
    /\ UNCHANGED <<dbVars, pipeVars, subVars, svcVars, is_postgres, clock>>

\* the SQLite commit gives up waiting: OperationalError leaves the task
PCommitTimeout(p) ==
    /\ pollers[p].pc = "commit"
    /\ pollers[p].saved # {} /\ ~pollers[p].broken
    /\ OtherReader(p)
    /\ pollers' = [pollers EXCEPT ![p] = IdlePoller(pollers[p].run)]
    /\ UNCHANGED <<dbVars, pipeVars, subVars, svcVars, scheduled_events, is_postgres,
                   clock>>

\* filter(pk=event.pk, processed=False)
StillUnprocessedMut(e) == TRUE
StillUnprocessed(e) == ~e.processed

\* .update(attempts=F("attempts") + 1, last_error=str(error)[:500])
RecordFailure(f) ==
    {IF e.pk = f.pk /\ StillUnprocessed(e)
     THEN [e EXCEPT !.attempts = @ + 1, !.last_error = Truncate(f.err)]
     ELSE e : e \in scheduled_events}

\* one iteration of `for event, error in failed_events`; the UPDATE waits
\* for a row lock of another run, and on SQLite for the other readers
PRecord(p) ==
    /\ pollers[p].pc = "record"
    /\ LET wk == pollers[p]
           f == wk.failed_events[wk.j]
       IN /\ f.pk \notin LockedByOthers(p)
          /\ ~OtherReader(p)
          /\ scheduled_events' = RecordFailure(f)
          /\ pollers' = [pollers EXCEPT ![p] =
                IF wk.j = Len(wk.failed_events) THEN IdlePoller(wk.run)
                ELSE [wk EXCEPT !.j = @ + 1]]
    /\ UNCHANGED <<dbVars, pipeVars, subVars, svcVars, is_postgres, clock>>

\* the SQLite UPDATE gives up waiting: OperationalError leaves the task
PRecordTimeout(p) ==
    /\ pollers[p].pc = "record"
    /\ OtherReader(p)
    /\ pollers' = [pollers EXCEPT ![p] = IdlePoller(pollers[p].run)]
    /\ UNCHANGED <<dbVars, pipeVars, subVars, svcVars, scheduled_events, is_postgres,
                   clock>>

process_scheduled_events ==
    \E p \in Pollers :
        PStart(p) \/ PClaim(p) \/ PDispatch(p) \/ PCommit(p) \/ PCommitTimeout(p)
        \/ PRecord(p) \/ PRecordTimeout(p)

\* the poller over a backlog that fits into one slice
process_scheduled_backlog ==
    \E p \in Pollers :
        PStart(p) \/ PClaimBacklog(p) \/ PDispatch(p) \/ PCommit(p)
        \/ PCommitTimeout(p) \/ PRecord(p) \/ PRecordTimeout(p)

\* time passes; the clock is read at the head of a run only
Tick ==
    /\ clock < MaxClock
    /\ \E p \in Pollers : pollers[p].pc = "idle"
    /\ pollers["p1"].run + pollers["p2"].run < MaxRuns
    /\ clock' = clock + 1
    /\ UNCHANGED <<dbVars, pipeVars, subVars, svcVars, scheduled_events, is_postgres,
                   pollers>>

\* ------------------------------------------------ subscription state machine
\* SubscriptionStatus
Statuses ==
    {"active", "past_due", "canceled", "incomplete", "incomplete_expired",
     "trialing", "unpaid", "paused"}

EXPECTED_TRANSITIONSMut(status) == Statuses
EXPECTED_TRANSITIONS(status) ==
    IF status = "active" THEN {"past_due", "canceled", "paused", "unpaid"}
    ELSE IF status = "trialing" THEN {"active", "past_due", "canceled", "paused"}
    ELSE IF status = "past_due" THEN {"active", "canceled", "unpaid"}
    ELSE IF status = "paused" THEN {"active", "canceled"}
    ELSE IF status = "incomplete"
         THEN {"active", "trialing", "incomplete_expired", "canceled"}
    ELSE IF status = "unpaid" THEN {"canceled"}
    ELSE {}

\* Subscription.apply_new_status: the warning it logs, the exception it
\* raises and the status the object has afterwards
apply_new_statusMut(status, new_status) ==
    [warned |-> new_status \notin EXPECTED_TRANSITIONS(status),
     exc |-> IF new_status \in EXPECTED_TRANSITIONS(status) THEN NoExc ELSE "Exception",
     status |-> IF new_status \in EXPECTED_TRANSITIONS(status) THEN new_status ELSE status]
apply_new_status(status, new_status) ==
    [warned |-> new_status \notin EXPECTED_TRANSITIONS(status),
     exc |-> NoExc,
     status |-> new_status]

SubHandlers ==
    {"HandleSubscriptionCreated", "HandleSubscriptionUpdated",
     "HandleSubscriptionDeleted", "HandleSubscriptionPaused",
     "HandleSubscriptionResumed"}

\* the status a handler gives the subscription: the payload's, or its own
TargetStatus(handler, status) ==
    IF handler \in {"HandleSubscriptionCreated", "HandleSubscriptionUpdated"}
    THEN status
    ELSE IF handler = "HandleSubscriptionDeleted" THEN "canceled"
    ELSE IF handler = "HandleSubscriptionPaused" THEN "paused"
    ELSE "active"

\* the handler changes the status through apply_new_status:
\* HandleSubscriptionUpdated when the statuses differ, cancel(), pause() and
\* HandleSubscriptionResumed always, update_or_create never
UsesApply(handler, current, target) ==
    IF handler = "HandleSubscriptionCreated" THEN FALSE
    ELSE IF handler = "HandleSubscriptionUpdated" THEN current # target
    ELSE TRUE

\* the entitlement change the handler makes after saving the subscription
Reconcile(handler, status, ents) ==
    IF handler \in {"HandleSubscriptionDeleted", "HandleSubscriptionPaused"}
    THEN revoke_for_subscription(ents)
    ELSE IF is_active(status)
    THEN sync_from_subscription(ents, get_features_for_price(PriceId))
    ELSE IF handler = "HandleSubscriptionUpdated"
    THEN revoke_for_subscription(ents)
    ELSE ents

StatusOf(subs) ==
    IF \E x \in subs : x.stripe_subscription_id = SubId
    THEN (CHOOSE x \in subs : x.stripe_subscription_id = SubId).status
    ELSE "-"

WithStatus(subs, status) ==
    {x \in subs : x.stripe_subscription_id # SubId} \cup
    {[stripe_subscription_id |-> SubId, status |-> status,
      stripe_price_id |-> PriceId]}

\* what the handler raises before it writes: the payload has no period data,
\* the customer or the subscription row is missing
RaisesFirst(handler, v) ==
    IF v # "ok" THEN ValidationExc(v)
    ELSE IF handler = "HandleSubscriptionCreated"
    THEN (IF customer THEN NoExc ELSE "WebhookRetry")
    ELSE IF SubRows = {}
    THEN (IF handler = "HandleSubscriptionUpdated" THEN MissingOnUpdate ELSE "WebhookSkip")
    ELSE NoExc

\* dispatch enters the handler (inside transaction.atomic() when
\* handler.__atomic__): validation and the lookup of the customer or of the
\* subscription row
SubBegin ==
    /\ txn.pc = "idle"
    /\ \E handler \in SubHandlers : \E status \in Statuses : \E v \in Validations :
         LET exc == RaisesFirst(handler, v) IN
         /\ handler \notin {"HandleSubscriptionCreated", "HandleSubscriptionUpdated"}
               => status = "active"
         /\ txn' = [IdleTxn EXCEPT
               !.pc = IF exc = NoExc THEN "write_sub" ELSE "raised",
               !.handler = handler,
               !.status = TargetStatus(handler, status),
               !.exc = exc,
               !.subs = subscriptions,
               !.ents = entitlements]
    /\ UNCHANGED <<dbVars, pipeVars, schedVars, svcVars, sweep>>

\* the tables after a statement of the handler: inside transaction.atomic()
\* the statement is seen by others only when the block commits
Visible(handler, table, written) == IF Atomic(handler) THEN table ELSE written

\* the subscription is saved: update_or_create, subscription.save(),
\* cancel() or pause()
SubWriteSub ==
    /\ txn.pc = "write_sub"
    /\ LET current == StatusOf(txn.subs)
           applied == IF UsesApply(txn.handler, current, txn.status)
                      THEN apply_new_status(current, txn.status)
                      ELSE [warned |-> FALSE, exc |-> NoExc, status |-> txn.status]
           written == WithStatus(txn.subs, applied.status)
       IN IF applied.exc # NoExc
          THEN /\ txn' = [txn EXCEPT !.pc = "raised", !.exc = applied.exc]
               /\ UNCHANGED subscriptions
          ELSE /\ txn' = [txn EXCEPT
                     !.pc = "write_ents",
                     !.subs = written,
                     !.warned = IF applied.warned
                                THEN [from |-> current, to |-> txn.status]
                                ELSE NoWarning]
               /\ subscriptions' = Visible(txn.handler, subscriptions, written)
    /\ UNCHANGED <<webhook_events, nextPk, handler_results, customer, entitlements,
                   ledger, pipeVars, schedVars, svcVars, sweep>>

\* sync_from_subscription or revoke_for_subscription
SubWriteEnts ==
    /\ txn.pc = "write_ents"
    /\ LET written == Reconcile(txn.handler, StatusOf(txn.subs), txn.ents) IN
       /\ txn' = [txn EXCEPT !.pc = "commit", !.ents = written]
       /\ entitlements' = Visible(txn.handler, entitlements, written)
    /\ UNCHANGED <<webhook_events, nextPk, handler_results, customer, subscriptions,
                   ledger, pipeVars, schedVars, svcVars, sweep>>

\* the handler returns and transaction.atomic() commits
SubCommit ==
    /\ txn.pc = "commit"
    /\ subscriptions' = txn.subs
    /\ entitlements' = txn.ents
    /\ txn' = IdleTxn
    /\ UNCHANGED <<webhook_events, nextPk, handler_results, customer, ledger,
                   pipeVars, schedVars, svcVars, sweep>>

\* a statement of the handler raises (the database fails): what the handler
\* wrote inside transaction.atomic() is rolled back
SubFail ==
    /\ txn.pc \in {"write_sub", "write_ents", "commit"}
    /\ txn' = [txn EXCEPT !.pc = "raised", !.exc = "Exception"]
    /\ UNCHANGED <<dbVars, pipeVars, schedVars, svcVars, sweep>>

\* the exception leaves dispatch
SubRaise ==
    /\ txn.pc = "raised"
    /\ txn' = IdleTxn
    /\ UNCHANGED <<dbVars, pipeVars, schedVars, svcVars, sweep>>

subscription_handlers ==
    SubBegin \/ SubWriteSub \/ SubWriteEnts \/ SubCommit \/ SubFail \/ SubRaise

\* the statuses the periodic tasks select
LifecycleStatuses == {"past_due"}
StaleStatuses == {"active", "trialing", "past_due"}

\* process_subscription_lifecycle and sync_stale_subscriptions_from_stripe
\* read the subscriptions they will change; they take no lock
SweepRead ==
    /\ sweep.pc = "idle"
    /\ \E row \in SubRows :
         \/ /\ row.status \in LifecycleStatuses
            /\ sweep' = [IdleSweep EXCEPT !.pc = "cancel", !.task = "lifecycle",
                                          !.read = row.status]
         \/ /\ row.status \in StaleStatuses
            /\ \E s \in Statuses :
                 sweep' = [IdleSweep EXCEPT !.pc = "save", !.task = "stale",
                                            !.read = row.status, !.status = s]
    /\ UNCHANGED <<dbVars, pipeVars, schedVars, svcVars, txn>>

\* a statement outside a handler's transaction waits for the row lock the
\* handler holds on the subscription
RowFree == txn.pc = "idle" \/ ~Atomic(txn.handler)

\* _expire_subscription: subscription.cancel() on the object read
SweepCancel ==
    /\ sweep.pc = "cancel"
    /\ RowFree
    /\ LET applied == apply_new_status(sweep.read, "canceled") IN
       /\ subscriptions' = WithStatus(subscriptions, applied.status)
       /\ sweep' = [sweep EXCEPT !.pc = "revoke", !.status = applied.status,
                       !.warned = IF applied.warned
                                  THEN [from |-> sweep.read, to |-> "canceled"]
                                  ELSE NoWarning]
    /\ UNCHANGED <<webhook_events, nextPk, handler_results, customer, entitlements,
                   ledger, pipeVars, schedVars, svcVars, txn>>

\* _expire_subscription: revoke_for_subscription
SweepRevoke ==
    /\ sweep.pc = "revoke"
    /\ RowFree
    /\ entitlements' = revoke_for_subscription(entitlements)
    /\ sweep' = IdleSweep
    /\ UNCHANGED <<webhook_events, nextPk, handler_results, customer, subscriptions,
                   ledger, pipeVars, schedVars, svcVars, txn>>

\* sync_stale_subscriptions_from_stripe: sub.status = stripe_sub.status and
\* sub.save(update_fields=["status", ...])
SweepSave ==
    /\ sweep.pc = "save"
    /\ RowFree
    /\ subscriptions' = WithStatus(subscriptions, sweep.status)
    /\ sweep' = IdleSweep
    /\ UNCHANGED <<webhook_events, nextPk, handler_results, customer, entitlements,
                   ledger, pipeVars, schedVars, svcVars, txn>>

subscription_sweeps == SweepRead \/ SweepCancel \/ SweepRevoke \/ SweepSave

\* ------------------------------------------------------ entitlement services
\* feature keys, the subscriptions of the one customer, and subscription=None
Features == {"A", "B", "C"}
EntSubscriptions == {"sub_1", "sub_2"}
NoSubscription == "none"
EntCustomer == "cus_1"
\* revoked_at = None
NotRevoked == 0
\* the plans a subscription is synced to: any set of features for sub_1, one
\* feature or none for sub_2
Plans(subscription) ==
    IF subscription = "sub_1" THEN SUBSET Features ELSE {{}, {"A"}}
\* the features granted by hand, outside the subscription-sync path
ManualFeatures == {"A"}
RevokeReasons == {"Subscription canceled", "Subscription paused"}

\* Entitlement.objects.filter(customer=, feature=, subscription=)
EntLookup(rows, owner, feature, subscription) ==
    {e \in rows : /\ e.customer = owner
                  /\ e.feature = feature
                  /\ e.subscription = subscription}

\* Entitlement.objects.filter(subscription=subscription, is_active=True)
EntActive(rows, subscription) ==
    {e \in rows : e.subscription = subscription /\ e.is_active}

\* ...values_list("feature", flat=True), as a set
EntFeatures(rows) == {e.feature : e \in rows}

\* entitlement.services.grant: get_or_create on (customer, feature,
\* subscription); a row found inactive is re-activated and saved, a row
\* found active is left alone; several rows found raise
\* MultipleObjectsReturned before anything is written
services_grantMut(rows, owner, feature, granted_by, subscription) ==
    rows \cup {[pk |-> Cardinality(rows) + 1, customer |-> owner,
                feature |-> feature, subscription |-> subscription,
                granted_by |-> granted_by, is_active |-> TRUE,
                revoked_at |-> NotRevoked, revoke_reason |-> "",
                usage_count |-> 0]}
services_grant(rows, owner, feature, granted_by, subscription) ==
    LET found == EntLookup(rows, owner, feature, subscription) IN
    IF found = {}
    THEN rows \cup {[pk |-> Cardinality(rows) + 1, customer |-> owner,
                     feature |-> feature, subscription |-> subscription,
                     granted_by |-> granted_by, is_active |-> TRUE,
                     revoked_at |-> NotRevoked, revoke_reason |-> "",
                     usage_count |-> 0]}
    ELSE IF Cardinality(found) > 1 THEN rows
    ELSE LET entitlement == CHOOSE e \in found : TRUE IN
         IF entitlement.is_active THEN rows
         ELSE (rows \ {entitlement}) \cup
              {[entitlement EXCEPT !.is_active = TRUE,
                                   !.revoked_at = NotRevoked,
                                   !.revoke_reason = "",
                                   !.granted_by = granted_by]}

\* log.info("Re-activated entitlement ...") of grant
Reactivated(rows, owner, feature, subscription) ==
    LET found == EntLookup(rows, owner, feature, subscription) IN
    IF Cardinality(found) = 1 /\ \A e \in found : ~e.is_active
    THEN "Re-activated" ELSE ""

\* EntitlementQuerySet.revoke_all on the rows selected
services_revoke_allMut(rows, selected, reason, now) == rows \ selected
services_revoke_all(rows, selected, reason, now) ==
    {IF e \in selected
     THEN [e EXCEPT !.is_active = FALSE, !.revoked_at = now,
                    !.revoke_reason = reason]
     ELSE e : e \in rows}

\* entitlement.services.revoke, as [rows, ret]
services_revoke(rows, owner, feature, reason, now) ==
    LET selected == {e \in rows : /\ e.customer = owner
                                  /\ e.feature = feature
                                  /\ e.is_active}
    IN [rows |-> IF selected # {}
                 THEN services_revoke_all(rows, selected, reason, now)
                 ELSE rows,
        ret |-> Cardinality(selected)]

\* entitlement.services.revoke_for_subscription, as [rows, ret]
services_revoke_for_subscription(rows, subscription, reason, now) ==
    LET qs == EntActive(rows, subscription) IN
    [rows |-> IF qs # {} THEN services_revoke_all(rows, qs, reason, now) ELSE rows,
     ret |-> Cardinality(qs)]

RECURSIVE GrantEach(_, _, _)
\* for feature in desired - current: grant(... subscription=subscription)
GrantEach(rows, features, subscription) ==
    IF features = {} THEN rows
    ELSE LET feature == CHOOSE f \in features : TRUE IN
         GrantEach(services_grant(rows, EntCustomer, feature, "subscription",
                                  subscription),
                   features \ {feature}, subscription)

\* entitlement.services.sync_from_subscription
SyncRemovedMut(current, desired) == current
SyncRemoved(current, desired) == current \ desired
services_sync_from_subscription(rows, subscription, features, now) ==
    LET current == EntFeatures(EntActive(rows, subscription))
        desired == features
        granted == GrantEach(rows, desired \ current, subscription)
        removed == SyncRemoved(current, desired)
    IN IF removed # {}
       THEN services_revoke_all(
                granted,
                {e \in EntActive(granted, subscription) : e.feature \in removed},
                "Feature removed from subscription plan", now)
       ELSE granted

\* a call of grant() for a manual grant
EntGrant ==
    /\ ent_ops < MaxOps
    /\ \E feature \in ManualFeatures :
         /\ ent_rows' = services_grant(ent_rows, EntCustomer, feature, "manual",
                                       NoSubscription)
         /\ ent_last' = [NoCall EXCEPT !.op = "grant", !.customer = EntCustomer,
                                       !.feature = feature,
                                       !.subscription = NoSubscription,
                                       !.log = Reactivated(ent_rows, EntCustomer,
                                                           feature, NoSubscription)]
    /\ ent_ops' = ent_ops + 1
    /\ UNCHANGED <<dbVars, pipeVars, schedVars, subVars, ent_sub, usage, replay, concVars,
                   purVars>>

\* a call of revoke(customer, feature, reason)
EntRevoke ==
    /\ ent_ops < MaxOps
    /\ \E feature \in Features :
         LET r == services_revoke(ent_rows, EntCustomer, feature, "", ent_ops + 1) IN
         /\ ent_rows' = r.rows
         /\ ent_last' = [NoCall EXCEPT !.op = "revoke", !.customer = EntCustomer,
                                       !.feature = feature, !.ret = r.ret]
    /\ ent_ops' = ent_ops + 1
    /\ UNCHANGED <<dbVars, pipeVars, schedVars, subVars, ent_sub, usage, replay, concVars,
                   purVars>>

\* a call of revoke_for_subscription(subscription, reason)
EntRevokeForSubscription ==
    /\ ent_ops < MaxOps
    /\ \E subscription \in EntSubscriptions : \E reason \in RevokeReasons :
         LET r == services_revoke_for_subscription(ent_rows, subscription, reason,
                                                    ent_ops + 1) IN
         /\ ent_rows' = r.rows
         /\ ent_last' = [NoCall EXCEPT !.op = "revoke_for_subscription",
                                       !.subscription = subscription,
                                       !.reason = reason, !.ret = r.ret]
    /\ ent_ops' = ent_ops + 1
    /\ UNCHANGED <<dbVars, pipeVars, schedVars, subVars, ent_sub, usage, replay, concVars,
                   purVars>>

\* a call of sync_from_subscription(subscription, features)
EntSync ==
    /\ ent_ops < MaxOps
    /\ \E subscription \in EntSubscriptions : \E features \in Plans(subscription) :
         /\ ent_rows' = services_sync_from_subscription(ent_rows, subscription,
                                                        features, ent_ops + 1)
         /\ ent_last' = [NoCall EXCEPT !.op = "sync_from_subscription",
                                       !.subscription = subscription,
                                       !.desired = features]
    /\ ent_ops' = ent_ops + 1
    /\ UNCHANGED <<dbVars, pipeVars, schedVars, subVars, ent_sub, usage, replay, concVars,
                   purVars>>

\* Entitlement.increment_usage on a row with no usage_limit
EntIncrementUsage ==
    /\ ent_ops < MaxOps
    /\ \E e \in ent_rows :
         /\ e.usage_count < MaxUsage
         /\ ent_rows' = (ent_rows \ {e}) \cup
                        {[e EXCEPT !.usage_count = e.usage_count + 1]}
         /\ ent_last' = [NoCall EXCEPT !.op = "increment_usage", !.pk = e.pk]
    /\ ent_ops' = ent_ops + 1
    /\ UNCHANGED <<dbVars, pipeVars, schedVars, subVars, ent_sub, usage, replay, concVars,
                   purVars>>

\* the prices sub_1 can have and the features
\* settings.STRIPE_PRICE_TO_FEATURES gives for them
EntPrices == {"price_1", "price_2"}
EntPlan(price) == IF price = "price_1" THEN {"A", "B"} ELSE {"B", "C"}
\* the statuses customer.subscription.updated events carry here
EventStatuses == {"active", "past_due", "canceled"}

\* HandleSubscriptionUpdated.handle after subscription.save(): sync when the
\* subscription is active, revoke_for_subscription otherwise
UpdatedEntitlementsMut(rows, status, price, now) ==
    services_revoke_for_subscription(rows, "sub_1", "", now).rows
UpdatedEntitlements(rows, status, price, now) ==
    IF is_active(status)
    THEN services_sync_from_subscription(rows, "sub_1", EntPlan(price), now)
    ELSE services_revoke_for_subscription(
             rows, "sub_1", "Subscription status changed to", now).rows

\* HandleSubscriptionUpdated.handle for an event of sub_1
EntHandleUpdated ==
    /\ ent_ops < MaxOps
    /\ \E status \in EventStatuses : \E price \in EntPrices :
         /\ ent_sub' = [status |-> status, price |-> price]
         /\ ent_rows' = UpdatedEntitlements(ent_rows, status, price, ent_ops + 1)
         /\ ent_last' = [NoCall EXCEPT !.op = "HandleSubscriptionUpdated",
                                       !.subscription = "sub_1",
                                       !.status = status, !.price = price,
                                       !.was = ent_sub]
    /\ ent_ops' = ent_ops + 1
    /\ UNCHANGED <<dbVars, pipeVars, schedVars, subVars, usage, replay,
                   concVars,
                   purVars>>

entitlement_services ==
    EntGrant \/ EntRevoke \/ EntRevokeForSubscription \/ EntSync
    \/ EntIncrementUsage \/ EntHandleUpdated

\* ------------------------------------------------ Entitlement.increment_usage
\* the entitlement of the tests: usage_limit 1, or 2, or none, and a
\* usage_count within the limit
UsageLimits == 0..MaxLimit
InitUsage ==
    /\ PipelineInit
    /\ SchedIdle
    /\ SubIdle
    /\ ent_rows = {}
    /\ ent_ops = 0
    /\ ent_last = NoCall
    /\ ent_sub = [status |-> "incomplete", price |-> "price_1"]
    /\ \E limit \in UsageLimits : \E count \in 0..limit :
          usage = Metered(limit, count)
    /\ replay = NoReplay
    /\ ConcIdle
    /\ PurIdle

\* a caller loads the entitlement (Entitlement.objects.get, or the row a
\* query returned): the instance has the stored usage_count of that moment
UsageLoad(c) ==
    /\ usage.calls[c].pc = "idle"
    /\ usage.calls[c].runs < MaxCalls
    /\ usage' = [usage EXCEPT !.calls[c] =
                    [@ EXCEPT !.pc = "loaded", !.seen = usage.row.usage_count,
                              !.runs = @ + 1]]
    /\ UNCHANGED <<dbVars, pipeVars, schedVars, subVars, ent_rows, ent_ops,
                   ent_last, ent_sub, replay, concVars, purVars>>

\* `if self.usage_limit and self.usage_count >= self.usage_limit`, on the
\* instance
AtLimit(limit, seen, stored) == limit # 0 /\ seen >= limit

\* increment_usage() on the loaded instance: the check, and the UPDATE with
\* usage_count = F("usage_count") + 1 on the stored row
UsageIncrement(c) ==
    /\ usage.calls[c].pc = "loaded"
    /\ LET me == usage.calls[c]
           row == usage.row
       IN  IF AtLimit(row.usage_limit, me.seen, row.usage_count)
           THEN usage' = [usage EXCEPT !.calls[c] =
                            [me EXCEPT !.pc = "idle", !.ret = "False"]]
           ELSE usage' = [usage EXCEPT
                            !.row.usage_count = @ + 1,
                            !.calls[c] = [me EXCEPT !.pc = "idle", !.ret = "True"]]
    /\ UNCHANGED <<dbVars, pipeVars, schedVars, subVars, ent_rows, ent_ops,
                   ent_last, ent_sub, replay, concVars, purVars>>

increment_usage ==
    \E c \in UsageCallers : UsageLoad(c) \/ UsageIncrement(c)

NextUsage == increment_usage

SpecUsage == InitUsage /\ [][NextUsage]_vars

\* ------------------------------------ events of one subscription, two orders
\* customer.subscription.updated events of sub_1, each with the status and the
\* price of its payload
UpdatedEvents == [status : EventStatuses, price : EntPrices]

\* HandleSubscriptionUpdated.handle on the subscription and its entitlements:
\* the price of the payload, the status of the payload through
\* apply_new_status when it differs, save(), then sync or revoke
ApplyUpdated(st, event) ==
    LET status == IF event.status # st.sub.status
                  THEN apply_new_status(st.sub.status, event.status).status
                  ELSE st.sub.status
    IN  [sub |-> [status |-> status, price |-> event.price],
         rows |-> UpdatedEntitlements(st.rows, status, event.price, st.now + 1),
         now |-> st.now + 1]

\* the subscription before the two events: a status, a price and the
\* entitlements HandleSubscriptionUpdated left for them
SettledAt(status, price) ==
    [sub |-> [status |-> status, price |-> price],
     rows |-> UpdatedEntitlements({}, status, price, 0),
     now |-> 0]

\* two different events are received for the subscription
ReplayBegin ==
    /\ replay.pc = "idle"
    /\ \E status \in EventStatuses : \E price \in EntPrices :
       \E first \in UpdatedEvents : \E second \in UpdatedEvents \ {first} :
         replay' = [pc |-> "run", events |-> <<first, second>>, done |-> 0,
                    fwd |-> SettledAt(status, price),
                    rev |-> SettledAt(status, price)]
    /\ UNCHANGED <<dbVars, pipeVars, schedVars, subVars, ent_rows, ent_ops,
                   ent_last, ent_sub, usage, concVars, purVars>>

\* the task of the next event runs: in one order the events are handled as
\* received, in the other order the later one is handled first
ReplayStep ==
    /\ replay.pc = "run"
    /\ replay.done < Len(replay.events)
    /\ replay' = [replay EXCEPT
          !.done = @ + 1,
          !.fwd = ApplyUpdated(@, replay.events[replay.done + 1]),
          !.rev = ApplyUpdated(@, replay.events[Len(replay.events) - replay.done])]
    /\ UNCHANGED <<dbVars, pipeVars, schedVars, subVars, ent_rows, ent_ops,
                   ent_last, ent_sub, usage, concVars, purVars>>

\* both events are processed: the subscription keeps what the handlers left
ReplayEnd ==
    /\ replay.pc = "run"
    /\ replay.done = Len(replay.events)
    /\ replay' = [replay EXCEPT !.pc = "processed"]
    /\ UNCHANGED <<dbVars, pipeVars, schedVars, subVars, ent_rows, ent_ops,
                   ent_last, ent_sub, usage, concVars, purVars>>

NextOrder == ReplayBegin \/ ReplayStep \/ ReplayEnd

SpecOrder == Init /\ [][NextOrder]_vars

\* ------------------------------------- concurrent handlers of one subscription
\* the handlers that look the subscription up with select_for_update()
ConcKinds ==
    {"HandleSubscriptionUpdated", "HandleSubscriptionDeleted",
     "HandleSubscriptionPaused", "HandleSubscriptionResumed"}

\* the subscription before the handlers run: active with its features, or
\* paused with none
InitConc ==
    /\ PipelineInit
    /\ SubIdle
    /\ EntIdle
    /\ PurIdle
    /\ scheduled_events = {}
    /\ clock = 1
    /\ pollers = [p \in Pollers |-> IdlePoller(0)]
    /\ is_postgres \in BOOLEAN
    /\ \E status \in {"active", "paused"} :
         conc_db = [row |-> [status |-> status, paused_at |-> status = "paused"],
                    features |-> IF is_active(status)
                                 THEN get_features_for_price(PriceId) ELSE {}]
    /\ conc_h = [h \in ConcHandlers |-> IdleConc]
    /\ conc_init = conc_db

\* select_for_update() on PostgreSQL: the row lock is held from the lookup to
\* the end of transaction.atomic()
HoldsRowLockMut(h) == FALSE
HoldsRowLock(h) ==
    is_postgres /\ conc_h[h].pc \in {"save", "reconcile", "commit"}
\* on SQLite select_for_update() takes no lock: the transaction holds the
\* database's SHARED lock once it has read and the RESERVED lock once it has
\* written
HasRead(h) == ~is_postgres /\ conc_h[h].pc \in {"save", "reconcile", "commit"}
HasWritten(h) == ~is_postgres /\ conc_h[h].pc \in {"reconcile", "commit"}

\* the row after the handler's save: subscription.save() writes every field
\* of the object that was read, save(update_fields=[...]) of cancel(), pause()
\* and HandleSubscriptionResumed only the fields named
SavedRow(handler, status, obj, stored) ==
    IF handler = "HandleSubscriptionUpdated"
    THEN [status |-> status, paused_at |-> obj.paused_at]
    ELSE IF handler = "HandleSubscriptionDeleted"
    THEN [stored EXCEPT !.status = "canceled"]
    ELSE IF handler = "HandleSubscriptionPaused"
    THEN [stored EXCEPT !.status = "paused", !.paused_at = TRUE]
    ELSE [stored EXCEPT !.status = "active", !.paused_at = FALSE]

\* the active features after the handler's sync_from_subscription or
\* revoke_for_subscription
ReconciledFeatures(handler, status) ==
    IF handler \in {"HandleSubscriptionDeleted", "HandleSubscriptionPaused"}
    THEN {}
    ELSE IF is_active(status) THEN get_features_for_price(PriceId)
    ELSE {}

\* dispatch_tracked enters transaction.atomic() for a handler
CBegin(h) ==
    /\ conc_h[h].pc = "idle"
    /\ \E handler \in ConcKinds : \E status \in PayloadStatuses :
         /\ handler # "HandleSubscriptionUpdated" => status = "active"
         /\ conc_h' = [conc_h EXCEPT ![h] =
               [IdleConc EXCEPT !.pc = "lookup", !.handler = handler,
                                !.status = TargetStatus(handler, status)]]
    /\ UNCHANGED <<dbVars, pipeVars, schedVars, subVars, entVars, purVars,
                   conc_db, conc_init>>

\* Subscription.objects.select_for_update().get(...): waits while another
\* transaction holds the row lock
CLookup(h) ==
    /\ conc_h[h].pc = "lookup"
    /\ \A o \in ConcHandlers \ {h} : ~HoldsRowLock(o)
    /\ conc_h' = [conc_h EXCEPT ![h].pc = "save", ![h].obj = conc_db.row]
    /\ UNCHANGED <<dbVars, pipeVars, schedVars, subVars, entVars, purVars,
                   conc_db, conc_init>>

\* the save of the subscription; on SQLite it fails with "database is
\* locked" when another transaction has written
CSave(h) ==
    /\ conc_h[h].pc = "save"
    /\ LET me == conc_h[h] IN
       conc_h' = [conc_h EXCEPT ![h] =
          IF \E o \in ConcHandlers \ {h} : HasWritten(o)
          THEN [me EXCEPT !.pc = "failed"]
          ELSE [me EXCEPT !.pc = "reconcile",
                          !.row = SavedRow(me.handler, me.status, me.obj,
                                           conc_db.row)]]
    /\ UNCHANGED <<dbVars, pipeVars, schedVars, subVars, entVars, purVars,
                   conc_db, conc_init>>

\* sync_from_subscription or revoke_for_subscription
CReconcile(h) ==
    /\ conc_h[h].pc = "reconcile"
    /\ conc_h' = [conc_h EXCEPT ![h].pc = "commit",
                                ![h].features =
                                    ReconciledFeatures(conc_h[h].handler,
                                                       conc_h[h].row.status)]
    /\ UNCHANGED <<dbVars, pipeVars, schedVars, subVars, entVars, purVars,
                   conc_db, conc_init>>

\* transaction.atomic() commits; on SQLite the commit waits for the
\* transactions that have read
CCommit(h) ==
    /\ conc_h[h].pc = "commit"
    /\ \A o \in ConcHandlers \ {h} : ~HasRead(o)
    /\ conc_db' = [row |-> conc_h[h].row, features |-> conc_h[h].features]
    /\ conc_h' = [conc_h EXCEPT ![h].pc = "done"]
    /\ UNCHANGED <<dbVars, pipeVars, schedVars, subVars, entVars, purVars,
                   conc_init>>

\* on SQLite the commit gives up waiting: "database is locked", and the
\* transaction is rolled back
CCommitTimeout(h) ==
    /\ conc_h[h].pc = "commit"
    /\ \E o \in ConcHandlers \ {h} : HasRead(o)
    /\ conc_h' = [conc_h EXCEPT ![h].pc = "failed"]
    /\ UNCHANGED <<dbVars, pipeVars, schedVars, subVars, entVars, purVars,
                   conc_db, conc_init>>

concurrent_handlers ==
    \E h \in ConcHandlers :
        \/ CBegin(h) \/ CLookup(h) \/ CSave(h) \/ CReconcile(h)
        \/ CCommit(h) \/ CCommitTimeout(h)

\* ------------------------------------------------------------------ refunds
\* amounts in hundredths: Decimal(cents) / 100 is exact, as is the NUMERIC
\* arithmetic of the UPDATE
PurchaseAmount == 2999
\* the amounts passed to refund(): by a direct call, or
\* event.amount_refunded_dollars of a charge.refunded event
RefundAmounts == {1000, 1999}
\* refund_amount = self.amount if amount is None else amount
RefundArguments(self) == RefundAmounts \cup {self.amount}

\* the purchase that is refunded: paid, nothing refunded yet
InitRefund ==
    /\ PipelineInit
    /\ SchedIdle
    /\ SubIdle
    /\ EntIdle
    /\ ConcIdle
    /\ purchases = {[pk |-> 1, stripe_invoice_id |-> "in_1",
                     stripe_price_id |-> "price_1",
                     stripe_checkout_session_id |-> "",
                     amount |-> PurchaseAmount, amount_refunded |-> 0,
                     status |-> "paid"]}
    /\ refunders = [r \in Refunders |-> IdleRefunder]
    /\ buyers = [b \in Buyers |-> IdleBuyer]

\* the purchase instance is loaded and refund(amount) is called on it
RefundCall(r) ==
    /\ refunders[r].pc = "idle"
    /\ refunders[r].runs < MaxRefunds
    /\ \E self \in purchases : \E refund_amount \in RefundArguments(self) :
         refunders' = [refunders EXCEPT
             ![r].pc = "update",
             ![r].amount = refund_amount,
             ![r].seen = self.amount_refunded,
             ![r].runs = @ + 1]
    /\ UNCHANGED <<dbVars, pipeVars, schedVars, subVars, entVars, concVars,
                   purchases, buyers>>

\* F("amount_refunded"): the UPDATE starts from the value stored in the row,
\* not from the instance
RefundBaseMut(row, seen) == seen
RefundBase(row, seen) == row.amount_refunded

\* When(amount_refunded__gte=F("amount") - refund_amount, then=REFUNDED),
\* default PARTIALLY_REFUNDED
RefundStatusMut(base, amount, refund_amount) ==
    IF base >= amount THEN "refunded" ELSE "partially_refunded"
RefundStatus(base, amount, refund_amount) ==
    IF base >= amount - refund_amount THEN "refunded" ELSE "partially_refunded"

\* Purchase.objects.filter(pk=self.pk).update(...): one statement
RefundUpdate(r) ==
    /\ refunders[r].pc = "update"
    /\ \E row \in purchases :
         LET base == RefundBase(row, refunders[r].seen)
             refund_amount == refunders[r].amount
         IN purchases' = (purchases \ {row}) \cup
               {[row EXCEPT !.amount_refunded = base + refund_amount,
                            !.status = RefundStatus(base, row.amount,
                                                    refund_amount)]}
    /\ refunders' = [refunders EXCEPT ![r].pc = "refresh",
                                      ![r].total = @ + refunders[r].amount]
    /\ UNCHANGED <<dbVars, pipeVars, schedVars, subVars, entVars, concVars,
                   buyers>>

\* self.refresh_from_db(fields=["amount_refunded", "status"])
RefundRefresh(r) ==
    /\ refunders[r].pc = "refresh"
    /\ \E row \in purchases :
         refunders' = [refunders EXCEPT ![r].pc = "idle",
                                        ![r].seen = row.amount_refunded]
    /\ UNCHANGED <<dbVars, pipeVars, schedVars, subVars, entVars, concVars,
                   purchases, buyers>>

refund ==
    \E r \in Refunders : RefundCall(r) \/ RefundUpdate(r) \/ RefundRefresh(r)

\* ----------------------------------------------------------- specifications
Next ==
    \/ stripe_webhook
    \/ process_webhook_event
    \/ CreateCustomer
    \/ \E id \in EventIds : Age(id)
    \/ cleanup_webhook_events
    \/ dispatch_event

Spec == Init /\ [][Next]_vars

\* the pipeline with workers that may crash in the middle of a task and with
\* database statements that may fail
NextFaults ==
    \/ stripe_webhook
    \/ process_webhook_event
    \/ CreateCustomer
    \/ \E w \in Workers : Crash(w)
    \/ \E w \in Workers : UpdateFails(w)

SpecFaults == Init /\ [][NextFaults]_vars

\* the pipeline under a broker that may deliver a task message again
NextRedelivery ==
    \/ stripe_webhook
    \/ process_webhook_event
    \/ CreateCustomer
    \/ \E id \in EventIds : Redeliver(id)

SpecRedelivery == Init /\ [][NextRedelivery]_vars

\* the pipeline with an ingestion call that may fail between the insert and
\* the enqueue
NextIngestion ==
    \/ stripe_webhook
    \/ process_webhook_event
    \/ CreateCustomer
    \/ \E r \in Requests : EnqueueFails(r)

SpecIngestion == Init /\ [][NextIngestion]_vars

\* the scheduled event poller, started by the beat schedule every 5 minutes
\* on any worker, over a backlog stored beforehand
NextSched ==
    \/ process_scheduled_events
    \/ Tick

SpecSched == InitSched /\ [][NextSched]_vars

\* the poller when every due row fits into the slice of one run
NextBatch ==
    \/ process_scheduled_backlog
    \/ Tick

SpecBatch == InitSched /\ [][NextBatch]_vars

\* the subscription handlers, run by dispatch for events in any order, and
\* the periodic tasks that change subscriptions
NextSub ==
    \/ subscription_handlers
    \/ subscription_sweeps
    \/ CreateCustomer

SpecSub == Init /\ [][NextSub]_vars

\* the entitlement services, called one after the other
NextEnt == entitlement_services

SpecEnt == Init /\ [][NextEnt]_vars

\* two deliveries for the same subscription, handled at the same time by
\* two workers
NextConc == concurrent_handlers

SpecConc == InitConc /\ [][NextConc]_vars

\* refunds of one purchase, by direct calls and by charge.refunded events
\* handled at the same time
NextRefund == refund

SpecRefund == InitRefund /\ [][NextRefund]_vars

\* ---------------------------------------------------------------------
\* Recording purchases: invoice.paid and checkout.session.completed
\* ---------------------------------------------------------------------
KnownCustomers == {"cus_1"}

\* the line items of the invoices that are delivered; the lines of in_2
\* carry no price object, so both have price_id ""
InvoiceLines(id) ==
    IF id = "in_1"
    THEN <<[price_id |-> "price_1", amount |-> 1999],
           [price_id |-> "price_2", amount |-> 1000]>>
    ELSE <<[price_id |-> "", amount |-> 1000],
           [price_id |-> "", amount |-> 1999]>>

InvoiceEvents ==
    {[type |-> "invoice.paid", id |-> "in_1", customer |-> "cus_1",
      mode |-> "", payment_status |-> "", lines |-> InvoiceLines("in_1")],
     [type |-> "invoice.paid", id |-> "in_2", customer |-> "cus_1",
      mode |-> "", payment_status |-> "", lines |-> InvoiceLines("in_2")],
     [type |-> "invoice.paid", id |-> "in_3", customer |-> "cus_ghost",
      mode |-> "", payment_status |-> "", lines |-> InvoiceLines("in_1")]}

CheckoutEvents ==
    {[type |-> "checkout.session.completed", id |-> "cs_1",
      customer |-> "cus_1", mode |-> "payment", payment_status |-> "paid",
      lines |-> <<>>],
     [type |-> "checkout.session.completed", id |-> "cs_2",
      customer |-> "cus_1", mode |-> "payment", payment_status |-> "unpaid",
      lines |-> <<>>],
     [type |-> "checkout.session.completed", id |-> "cs_2",
      customer |-> "cus_1", mode |-> "payment", payment_status |-> "paid",
      lines |-> <<>>],
     [type |-> "checkout.session.completed", id |-> "cs_3",
      customer |-> "cus_1", mode |-> "subscription",
      payment_status |-> "paid", lines |-> <<>>],
     [type |-> "checkout.session.completed", id |-> "cs_4",
      customer |-> "None", mode |-> "payment", payment_status |-> "paid",
      lines |-> <<>>]}

PurchaseEvents == InvoiceEvents \cup CheckoutEvents

\* Meta.constraints: would inserting row break the constraint, given rows
unique_purchase_per_invoice_lineMut(rows, row) == FALSE

unique_purchase_per_invoice_line(rows, row) ==
    /\ row.stripe_invoice_id # ""
    /\ \E r \in rows :
          /\ r.stripe_invoice_id = row.stripe_invoice_id
          /\ r.stripe_price_id = row.stripe_price_id

unique_purchase_per_checkout_session(rows, row) ==
    /\ row.stripe_checkout_session_id # ""
    /\ \E r \in rows :
          r.stripe_checkout_session_id = row.stripe_checkout_session_id

IntegrityError(rows, row) ==
    \/ unique_purchase_per_invoice_line(rows, row)
    \/ unique_purchase_per_checkout_session(rows, row)

Pks(rows) == {r.pk : r \in rows}

\* the rows other open transactions inserted and did not commit yet
PendingOfOthers(b) == UNION {buyers[o].pending : o \in Buyers \ {b}}

\* the rows other open transactions hold a row lock on
RowsLockedByOthers(b) == UNION {Pks(buyers[o].updated) : o \in Buyers \ {b}}

\* what the statements of b's transaction see: the committed rows, with its
\* own writes
VisibleTo(b) ==
    {r \in purchases : r.pk \notin Pks(buyers[b].updated)}
        \cup buyers[b].updated \cup buyers[b].pending

NextPk ==
    LET used == Pks(purchases) \cup
                UNION {Pks(buyers[o].pending) : o \in Buyers}
    IN  IF used = {} THEN 1
        ELSE (CHOOSE m \in used : \A k \in used : k <= m) + 1

NewPurchase(invoice, price, session, amount) ==
    [pk |-> NextPk, stripe_invoice_id |-> invoice, stripe_price_id |-> price,
     stripe_checkout_session_id |-> session, amount |-> amount,
     amount_refunded |-> 0, status |-> "paid"]

InvoiceLineRows(rows, invoice, price) ==
    {r \in rows : r.stripe_invoice_id = invoice /\ r.stripe_price_id = price}

\* update_or_create wrote the defaults to the row it found: the row is
\* locked by the transaction and carries the line's amount
WithDefaults(self, row, amount) ==
    [self EXCEPT !.updated =
        {u \in @ : u.pk # row.pk} \cup
        (IF row \in self.pending THEN {} ELSE {[row EXCEPT !.amount = amount]}),
                 !.pending =
        IF row \in self.pending
        THEN (@ \ {row}) \cup {[row EXCEPT !.amount = amount]}
        ELSE @]

\* the handler goes on to the next line, or returns after the last one
NextLine(self) ==
    IF self.line < Len(self.event.lines)
    THEN [self EXCEPT !.pc = "get", !.line = @ + 1]
    ELSE [self EXCEPT !.pc = "commit"]

\* dispatch_tracked opens the transaction and calls the handler, which
\* validates the payload and looks the customer up
BBegin(b, event) ==
    /\ buyers[b].pc = "idle"
    /\ buyers[b].runs < MaxPurchaseRuns
    /\ LET me == [buyers[b] EXCEPT !.event = event, !.line = 0,
                                   !.met = "", !.runs = @ + 1]
       IN  buyers' = [buyers EXCEPT ![b] =
             IF event.type = "invoice.paid"
             THEN IF event.customer \notin KnownCustomers
                  THEN [me EXCEPT !.pc = "commit", !.met = "no customer"]
                  ELSE NextLine(me)
             ELSE IF event.mode # "payment"
                  THEN [me EXCEPT !.pc = "commit", !.met = "not a payment"]
             ELSE IF event.payment_status # "paid"
                  THEN [me EXCEPT !.pc = "commit", !.met = "not paid"]
             ELSE IF event.customer \notin KnownCustomers
                  \* WebhookSkip leaves the transaction, nothing was written
                  THEN [me EXCEPT !.pc = "idle", !.met = "skip"]
             ELSE [me EXCEPT !.pc = "exists"]]
    /\ UNCHANGED <<dbVars, pipeVars, schedVars, subVars, entVars, concVars,
                   purchases, refunders>>

\* update_or_create, first half: select_for_update().get() on the line's
\* key; a row that is found is locked and saved with the defaults
BGet(b) ==
    /\ buyers[b].pc = "get"
    /\ LET me    == buyers[b]
           ln    == me.event.lines[me.line]
           found == InvoiceLineRows(VisibleTo(b), me.event.id, ln.price_id)
       IN  IF found = {}
           THEN buyers' = [buyers EXCEPT ![b] = [me EXCEPT !.pc = "insert"]]
           ELSE \E row \in found :
                  /\ row.pk \notin RowsLockedByOthers(b)
                  /\ buyers' = [buyers EXCEPT ![b] =
                        NextLine([WithDefaults(me, row, ln.amount)
                                    EXCEPT !.met = "updated"])]
    /\ UNCHANGED <<dbVars, pipeVars, schedVars, subVars, entVars, concVars,
                   purchases, refunders>>

\* update_or_create, second half: create(); the insert waits for an open
\* transaction that inserted the same key, and on IntegrityError the row is
\* fetched again and saved with the defaults
BInsert(b) ==
    /\ buyers[b].pc = "insert"
    /\ LET me  == buyers[b]
           ln  == me.event.lines[me.line]
           row == NewPurchase(me.event.id, ln.price_id, "", ln.amount)
       IN  /\ ~IntegrityError(PendingOfOthers(b), row)
           /\ IF IntegrityError(VisibleTo(b), row)
              THEN \E old \in InvoiceLineRows(VisibleTo(b), me.event.id,
                                              ln.price_id) :
                     /\ old.pk \notin RowsLockedByOthers(b)
                     /\ buyers' = [buyers EXCEPT ![b] =
                           NextLine([WithDefaults(me, old, ln.amount)
                                       EXCEPT !.met = "integrity"])]
              ELSE buyers' = [buyers EXCEPT ![b] =
                     NextLine([me EXCEPT !.pending = @ \cup {row},
                                         !.met = "created"])]
    /\ UNCHANGED <<dbVars, pipeVars, schedVars, subVars, entVars, concVars,
                   purchases, refunders>>

\* HandleCheckoutSessionCompleted: filter(stripe_checkout_session_id).exists()
BExists(b) ==
    /\ buyers[b].pc = "exists"
    /\ LET me == buyers[b]
       IN  buyers' = [buyers EXCEPT ![b] =
             IF \E r \in VisibleTo(b) :
                    r.stripe_checkout_session_id = me.event.id
             THEN [me EXCEPT !.pc = "commit", !.met = "exists"]
             ELSE [me EXCEPT !.pc = "create"]]
    /\ UNCHANGED <<dbVars, pipeVars, schedVars, subVars, entVars, concVars,
                   purchases, refunders>>

\* HandleCheckoutSessionCompleted: Purchase.objects.create(); IntegrityError
\* leaves the handler and the transaction is rolled back
BCreate(b) ==
    /\ buyers[b].pc = "create"
    /\ LET me  == buyers[b]
           row == NewPurchase("", "", me.event.id, PurchaseAmount)
       IN  /\ ~IntegrityError(PendingOfOthers(b), row)
           /\ buyers' = [buyers EXCEPT ![b] =
                 IF IntegrityError(VisibleTo(b), row)
                 THEN [me EXCEPT !.pc = "idle", !.pending = {},
                                 !.updated = {}, !.met = "integrity"]
                 ELSE [me EXCEPT !.pc = "commit", !.pending = {row},
                                 !.met = "created"]]
    /\ UNCHANGED <<dbVars, pipeVars, schedVars, subVars, entVars, concVars,
                   purchases, refunders>>

\* the handler returned: the transaction commits its inserts and updates
BCommit(b) ==
    /\ buyers[b].pc = "commit"
    /\ purchases' = {r \in purchases : r.pk \notin Pks(buyers[b].updated)}
                        \cup buyers[b].updated \cup buyers[b].pending
    /\ buyers' = [buyers EXCEPT ![b] =
                    [@ EXCEPT !.pc = "idle", !.pending = {}, !.updated = {}]]
    /\ UNCHANGED <<dbVars, pipeVars, schedVars, subVars, entVars, concVars,
                   refunders>>

record_purchases ==
    \/ \E b \in Buyers, event \in PurchaseEvents : BBegin(b, event)
    \/ \E b \in Buyers : BGet(b)
    \/ \E b \in Buyers : BInsert(b)
    \/ \E b \in Buyers : BExists(b)
    \/ \E b \in Buyers : BCreate(b)
    \/ \E b \in Buyers : BCommit(b)

NextPurchase == record_purchases

SpecPurchase == Init /\ [][NextPurchase]_vars

\* ------------------------------------------------------------------ claims
FirstHandler(e) == handlers_for(e.event_type)[1]
Transient == {"WebhookRetry", "WebhookInfrastructureError", "Exception"}

\* C1: for every event and every handler registered for its type, the
\* handler's effects on billing state are committed at most once, also when
\* the task is retried, when a worker crashes at any point of processing and
\* its task is run again, and when a statement of the task fails.
C1_EffectsAtMostOnce ==
    \A id \in EventIds : \A h \in HandlerNames : ledger[id][h] <= 1

\* C2: for any number of ingestion calls with one external id, sequential or
\* concurrent, at most one row with the id is stored and exactly one while
\* the row is retained; exactly one call observes "created" and only that
\* call enqueues the processing task; a duplicate call leaves the stored row
\* as it is.
C2_IdempotentIngestion ==
    [][\A id \in EventIds :
        /\ Cardinality(EventRows(id)') <= 1
        /\ observed'[id].created <= 1
        /\ enqueued'[id] <= observed'[id].created
        /\ (observed'[id].duplicate + observed'[id].race > 0)
              => observed'[id].created = 1
        /\ (observed'[id].created = 1 /\ id \notin purged')
              => Cardinality(EventRows(id)') = 1
        /\ (observed'[id].created = 1
            /\ \A r \in Requests : requests'[r].id # id)
              => enqueued'[id] = 1
        /\ (observed'[id].duplicate + observed'[id].race
              > observed[id].duplicate + observed[id].race)
              => /\ EventRows(id)' = EventRows(id)
                 /\ queue' = queue
                 /\ enqueued' = enqueued]_vars

C2_Witness ==
    \E id \in EventIds :
        /\ observed[id].created = 1 /\ observed[id].duplicate >= 1
        /\ observed[id].race >= 1
        /\ enqueued[id] = 1 /\ Cardinality(EventRows(id)) = 1

\* C3: tracked dispatch never invokes a handler whose result row is already
\* completed, so each handler returns successfully at most once per event;
\* when the first handler of a multi-handler type fails on the first pass and
\* all handlers succeed on the second, the first handler has run twice and
\* every other handler once.
C3_Scenario(e) ==
    LET id == e.stripe_event_id
        hs == handlers_for(e.event_type)
    IN /\ Len(hs) >= 2
       /\ passes[id] = 2
       /\ e.processed /\ lastPass[id] = "processed"
       /\ failed[id][hs[1]] = 1
       /\ \A i \in 2..Len(hs) : failed[id][hs[i]] = 0

C3_PerHandlerIdempotency ==
    /\ ~staleInvoke
    /\ \A id \in EventIds : \A h \in HandlerNames : succeeded[id][h] <= 1
    /\ \A e \in webhook_events :
         C3_Scenario(e) =>
            LET id == e.stripe_event_id
                hs == handlers_for(e.event_type)
            IN /\ invoked[id][hs[1]] = 2
               /\ \A i \in 2..Len(hs) : invoked[id][hs[i]] = 1

C3_Witness == \E e \in webhook_events : C3_Scenario(e)

\* C4: a handler result row is completed only if its handler has returned
\* without error for the event; a row is created incomplete, a handler
\* failure leaves it incomplete, a completed row never reverts, and when a
\* tracked pass returns normally every handler of the type has exactly one
\* row and it is completed.
SameKey(r, q) == r.event = q.event /\ r.handler_name = q.handler_name

C4_CompletionRows ==
    [][/\ \A r \in handler_results' :
            /\ \A q \in handler_results' : SameKey(r, q) => r = q
            /\ r.processed =>
                 \E e \in webhook_events' :
                    e.pk = r.event /\ succeeded'[e.stripe_event_id][r.handler_name] >= 1
            /\ (\A q \in handler_results : ~SameKey(r, q)) => ~r.processed
       /\ \A r \in handler_results : \A q \in handler_results' :
            (SameKey(r, q) /\ r.processed) => q.processed
       /\ \A w \in Workers :
            LET wk == workers'[w]
                hs == handlers_for(wk.event.event_type)
            IN /\ wk.pc = "except" =>
                    \E r \in handler_results' :
                       /\ r.event = wk.event.pk /\ r.handler_name = hs[wk.idx]
                       /\ ~r.processed
               /\ wk.pc = "mark_event" =>
                    \A i \in 1..Len(hs) :
                       \E r \in handler_results' :
                          /\ r.event = wk.event.pk /\ r.handler_name = hs[i]
                          /\ r.processed]_vars

C4_Witness ==
    \E w \in Workers :
        /\ workers[w].pc = "mark_event"
        /\ passes[workers[w].id] >= 2
        /\ Len(handlers_for(workers[w].event.event_type)) = 2

\* C5: when a handler raises WebhookSkip during tracked dispatch, the task
\* marks the event fully processed (processed and processed_at set) and
\* schedules no retry.
C5_SkipTerminal ==
    [][\A w \in Workers :
        (workers[w].pc = "except" /\ workers[w].exc = "WebhookSkip"
         /\ workers'[w].pc = "idle")
        => /\ \E e \in webhook_events' :
                /\ e.pk = workers[w].event.pk
                /\ e.processed /\ e.processed_at
           /\ queue' = queue
           /\ retryCalls' = retryCalls]_vars

C5_Witness ==
    \E e \in webhook_events :
        /\ lastPass[e.stripe_event_id] \in {"skipped", "skipped_not_found"}
        /\ e.processed /\ e.processed_at
        /\ \A m \in BagToSet(queue) : m.id # e.stripe_event_id

\* C6: when a handler raises WebhookRetry, WebhookInfrastructureError or an
\* unclassified exception during tracked dispatch, the event stays
\* unprocessed and the task calls self.retry (which schedules the next
\* attempt while the retries are below the maximum); the event is not marked
\* processed on this path.
C6_TransientRetries ==
    [][\A w \in Workers :
        (workers[w].pc = "except" /\ workers[w].exc \in Transient
         /\ workers'[w].pc = "idle")
        => LET wk == workers[w] IN
           /\ webhook_events' = webhook_events
           /\ \E e \in webhook_events' : e.pk = wk.event.pk /\ ~e.processed
           /\ retryCalls'[wk.id] = retryCalls[wk.id] + 1
           /\ wk.retries < 5 =>
                queue' = queue (+) SetToBag({[id |-> wk.id, retries |-> wk.retries + 1]})]_vars

C6_Witness ==
    \E e \in webhook_events :
        /\ lastPass[e.stripe_event_id] = "retry"
        /\ ~e.processed
        /\ \E m \in BagToSet(queue) : m.id = e.stripe_event_id /\ m.retries >= 1

\* the task has given up on the event after its first handler raised
\* WebhookRetry in every pass
C7_AlwaysRetried(e) ==
    LET id == e.stripe_event_id IN
    /\ handlers_for(e.event_type) # <<>>
    /\ lastPass[id] = "exhausted"
    /\ onlyRetry[id][FirstHandler(e)]
    /\ invoked[id][FirstHandler(e)] = passes[id]

\* C7 as claimed: a handler that raises Retry on every invocation is invoked
\* exactly 5 times in total for one event; after that no further attempt is
\* scheduled and the event remains unprocessed.
C7_FiveInvocations ==
    \A e \in webhook_events :
        C7_AlwaysRetried(e) =>
            /\ invoked[e.stripe_event_id][FirstHandler(e)] = 5
            /\ ~e.processed

\* C7 amended: a handler that raises Retry on every invocation is invoked
\* exactly 6 times in total for one event (the first attempt and 5 retries);
\* after that no further attempt is scheduled and the event remains
\* unprocessed; no handler is invoked more than 6 times for one event.
C7_SixInvocations ==
    /\ \A id \in EventIds : \A h \in HandlerNames : invoked[id][h] <= 6
    /\ \A e \in webhook_events :
         C7_AlwaysRetried(e) =>
            /\ invoked[e.stripe_event_id][FirstHandler(e)] = 6
            /\ ~e.processed
            /\ ~TaskInFlight(e.stripe_event_id)

C7_Witness == \E e \in webhook_events : C7_AlwaysRetried(e)

\* C8: in one dispatch pass, tracked or untracked, when a handler raises no
\* handler after it in registration order is invoked in the pass, the writes
\* of the failing handler are rolled back when it runs transactionally, the
\* writes and completion rows of the handlers that succeeded before it in
\* the pass are kept, and the exception reaches the caller unchanged.
IsPrefix(calls, hs) ==
    /\ Len(calls) <= Len(hs)
    /\ \A k \in 1..Len(calls) : calls[k] = hs[k]
IsInOrder(calls, hs, idx) ==
    /\ calls # <<>> /\ calls[Len(calls)] = hs[idx]
    /\ \A k \in 1..Len(calls) : \E j \in 1..idx : calls[k] = hs[j]
    /\ \A k, l \in 1..Len(calls) : k < l => calls[k] # calls[l]

C8_FailureStopsPass ==
    [][/\ \A w \in Workers :
            LET wk == workers'[w]
                hs == handlers_for(wk.event.event_type)
            IN /\ (workers[w].pc = "handle" /\ wk.pc # "handle" /\ wk.raised # NoExc)
                    => /\ wk.pc = "except" /\ wk.exc = wk.raised
                       /\ Atomic(hs[wk.idx]) =>
                            /\ ledger' = ledger
                            /\ subscriptions' = subscriptions
                            /\ entitlements' = entitlements
               /\ wk.pc = "except"
                    => /\ IsInOrder(wk.calls, hs, wk.idx)
                       /\ \A k \in 1..(Len(wk.calls) - 1) :
                            /\ ledger'[wk.id][wk.calls[k]] >= 1
                            /\ \E r \in handler_results' :
                                 /\ r.event = wk.event.pk
                                 /\ r.handler_name = wk.calls[k]
                                 /\ r.processed
       /\ LET hs == handlers_for(upass'.type) IN
          /\ upass'.pc \in {"run", "done"} => IsPrefix(upass'.calls, hs)
          /\ (upass'.pc = "done" /\ upass'.raised # NoExc)
               => /\ upass'.exc = upass'.raised
                  /\ upass'.ret = -1
                  /\ Len(upass'.calls) = upass'.idx
                  /\ \A k \in 1..(upass'.idx - 1) : upass'.writes[hs[k]] = 1
                  /\ Atomic(hs[upass'.idx]) => upass'.writes[hs[upass'.idx]] = 0
                  /\ \A k \in (upass'.idx + 1)..Len(hs) : upass'.writes[hs[k]] = 0]_vars

\* an untracked pass has ended at its first handler's raise, and a tracked
\* pass is at the raise of its second handler
C8_Witness ==
    /\ useen
    /\ \E w \in Workers :
          /\ workers[w].pc = "except"
          /\ workers[w].idx = 2
          /\ Len(workers[w].calls) = 2

\* C9: the retention sweep deletes only events that are fully processed and
\* older than 90 days; an unprocessed event is never deleted, whatever its
\* age.
C9_RetentionKeepsUnprocessed ==
    [][\A e \in webhook_events :
        (\A x \in webhook_events' : x.pk # e.pk) => (e.processed /\ e.old)]_vars

\* a worker is about to run, or has just run, HandleSubscriptionUpdated
RunsUpdated(wk) ==
    /\ wk.event.event_type = "customer.subscription.updated"
    /\ handlers_for(wk.event.event_type)[wk.idx] = "HandleSubscriptionUpdated"

C11_OnlyMissingCustomer(id) ==
    /\ \E e \in EventRows(id) : e.event_type = "customer.subscription.created"
    /\ invoked[id]["HandleSubscriptionCreated"] >= 1
    /\ onlyRetry[id]["HandleSubscriptionCreated"]

\* C11: a subscription-created event whose customer is unknown locally
\* raises WebhookRetry and the event stays unprocessed; once the customer
\* record exists and the same event has been redelivered (the delivery is
\* answered and no task for the event is pending), the handler has
\* succeeded, a subscription row with status active exists, the entitlements
\* pro, api_access and priority_support are active for it, and the event is
\* marked fully processed.
C11_RedeliveryCompletes ==
    [][\A id \in EventIds :
        /\ \A w \in Workers :
             (workers[w].pc = "handle" /\ workers[w].id = id /\ ~customer
              /\ workers'[w].ctx = "stripe_customer_id")
             => /\ workers'[w].exc = "WebhookRetry"
                /\ \A e \in EventRows(id)' : ~e.processed
        /\ (C11_OnlyMissingCustomer(id) /\ customer
            /\ observed'[id].duplicate > observed[id].duplicate
            /\ ~TaskInFlight(id)')
           => /\ \A e \in EventRows(id)' : e.processed
              /\ succeeded'[id]["HandleSubscriptionCreated"] = 1
              /\ \E s \in subscriptions' :
                    s.stripe_subscription_id = SubId /\ s.status = "active"
              /\ ActiveFeatures(entitlements') =
                    {"pro", "api_access", "priority_support"}]_vars

\* steps of a poller run, as seen from outside
ClaimStep(p) == pollers[p].pc = "claim" /\ pollers'[p].pc # "claim"
DispatchStep(p) ==
    pollers[p].pc = "dispatch" /\ pollers'[p].i = pollers[p].i + 1
Dispatches(p, pk) ==
    DispatchStep(p) /\ pollers[p].pending[pollers[p].i].pk = pk
RunEnds(p) == pollers[p].pc # "idle" /\ pollers'[p].pc = "idle"
Active(p) == pollers[p].pc # "idle"
\* the pks run p has dispatched so far
DispatchedSoFar(p) ==
    {pollers[p].pending[k].pk : k \in 1..(pollers[p].i - 1)}

\* C12: two concurrent poller runs against the same backlog of due scheduled
\* events claim disjoint sets of rows, and no scheduled event is dispatched
\* by both runs, whether its dispatch succeeds or fails.
C12_DisjointClaims ==
    [][\A p \in Pollers : \A q \in Pollers \ {p} :
        /\ (ClaimStep(p) /\ Active(q))
              => PksOf(pollers'[p].pending) \cap PksOf(pollers[q].pending) = {}
        /\ \A pk \in ScheduledPks :
              (Dispatches(p, pk) /\ Active(q)) => pk \notin DispatchedSoFar(q)]_vars

\* C13: a poller run dispatches a scheduled event only if at claim time
\* processed=false, execute_at <= now and attempts < max_attempts; it claims
\* at most BatchLimit such rows per run, taken in ascending execute_at order.
C13_ClaimContract ==
    [][\A p \in Pollers :
        /\ ClaimStep(p) =>
             LET claimed == pollers'[p].pending
                 now == pollers[p].now
             IN /\ Len(claimed) <= BatchLimit
                /\ now <= clock
                /\ \A k \in 1..Len(claimed) :
                      /\ claimed[k] \in scheduled_events
                      /\ ~claimed[k].processed
                      /\ claimed[k].execute_at <= now
                      /\ claimed[k].attempts < 5
                /\ \A a, b \in 1..Len(claimed) :
                      a < b => /\ claimed[a].execute_at <= claimed[b].execute_at
                               /\ claimed[a].pk # claimed[b].pk
                /\ \A u \in scheduled_events :
                      (/\ u.pk \notin PksOf(claimed)
                       /\ u.pk \notin LockedByOthers(p)
                       /\ ~u.processed /\ u.execute_at <= now /\ u.attempts < 5)
                      => /\ Len(claimed) = BatchLimit
                         /\ \A k \in 1..Len(claimed) :
                               claimed[k].execute_at <= u.execute_at
        /\ DispatchStep(p) =>
             /\ pollers[p].i \in 1..Len(pollers[p].pending)
             /\ pollers'[p].pending = pollers[p].pending]_vars

\* a run has claimed BatchLimit rows and left a later due row unclaimed
C13_Witness ==
    \E p \in Pollers :
        /\ pollers[p].pc = "dispatch"
        /\ Len(pollers[p].pending) = BatchLimit
        /\ \E u \in scheduled_events :
              /\ u.pk \notin PksOf(pollers[p].pending)
              /\ ~u.processed /\ u.attempts < 5
              /\ u.execute_at <= pollers[p].now
              /\ u.execute_at > pollers[p].pending[1].execute_at
        /\ \A q \in Pollers \ {p} : pollers[q].run = 0

\* C14: for each row claimed by a poller run: if dispatch succeeds the row
\* ends the run with processed=true, processed_at set and attempts increased
\* by exactly 1; if dispatch raises, the row ends the run with
\* processed=false, attempts increased by exactly 1 and last_error set to the
\* error message truncated to 500 characters.
C14_RunOutcome ==
    [][\A p \in Pollers :
        RunEnds(p) =>
          LET wk == pollers[p] IN
          \A k \in 1..Len(wk.pending) :
            \E row \in scheduled_events' :
              /\ row.pk = wk.pending[k].pk
              /\ row.attempts = wk.pending[k].attempts + 1
              /\ k \in wk.saved => (row.processed /\ row.processed_at)
              /\ \A n \in 1..Len(wk.failed_events) :
                    wk.failed_events[n].idx = k =>
                       /\ ~row.processed
                       /\ row.last_error.msg = wk.failed_events[n].err.msg
                       /\ row.last_error.len =
                            (IF wk.failed_events[n].err.len < 500
                             THEN wk.failed_events[n].err.len ELSE 500)]_vars

DueFor(p) ==
    {e \in scheduled_events :
        ~e.processed /\ e.execute_at <= pollers[p].now /\ e.attempts < 5}

C16_ProcessedTerminal ==
    [][\A e \in scheduled_events :
        e.processed =>
          /\ \E x \in scheduled_events' :
                /\ x.pk = e.pk /\ x.processed
                /\ x.attempts = e.attempts
                /\ x.last_error = e.last_error
          /\ \A p \in Pollers :
                /\ ClaimStep(p) => e.pk \notin PksOf(pollers'[p].pending)
                /\ ~Dispatches(p, e.pk)]_vars

\* a run is about to record the failure of a row that another run has
\* processed in the meantime
C16_Witness ==
    \E p \in Pollers :
        /\ pollers[p].pc = "record"
        /\ \E e \in scheduled_events :
              /\ e.processed
              /\ e.pk = pollers[p].failed_events[pollers[p].j].pk

\* C17: a scheduled event whose attempts reached max_attempts without a
\* successful dispatch stays stored with processed=false and its last_error,
\* is never dispatched again, and is never deleted or reset by the poller.
C17_ExhaustedStays ==
    [][\A e \in scheduled_events :
        (~e.processed /\ e.attempts >= 5) =>
          /\ \E x \in scheduled_events' :
                /\ x.pk = e.pk /\ ~x.processed
                /\ x.attempts >= e.attempts
                /\ x.execute_at = e.execute_at
                /\ x.last_error # NoError
          /\ \A p \in Pollers :
                /\ ClaimStep(p) => e.pk \notin PksOf(pollers'[p].pending)
                /\ ~Dispatches(p, e.pk)]_vars

\* a row has used up its attempts and the next run, with no other run about,
\* has claimed nothing although the row is due
C17_Witness ==
    /\ pollers["p1"].pc = "commit" /\ pollers["p1"].pending = <<>>
    /\ pollers["p2"].run = 0
    /\ \E e \in scheduled_events :
          /\ ~e.processed /\ e.attempts >= 5 /\ e.last_error # NoError
          /\ e.execute_at <= pollers["p1"].now
    /\ \A e \in scheduled_events : e.processed \/ e.attempts >= 5

TerminalStatuses == {"canceled", "incomplete_expired"}
HandlerCommits == txn.pc = "commit" /\ txn'.pc = "idle"

\* C18: applying a status change to a subscription always ends with status
\* equal to the target and never raises or blocks, for every pair (current
\* status, target status), including pairs absent from the
\* expected-transition table; the table influences logging only.
C18_StatusChangeApplies ==
    [][/\ \A current \in Statuses : \A target \in Statuses :
            LET applied == apply_new_status(current, target) IN
            /\ applied.status = target
            /\ applied.exc = NoExc
            /\ applied.warned <=> (target \notin EXPECTED_TRANSITIONS(current))
       /\ (txn.pc = "write_sub" /\ txn'.pc = "raised") => txn'.exc = "Exception"
       /\ (txn.pc = "write_sub" /\ txn'.pc = "write_ents") =>
            /\ StatusOf(txn'.subs) = txn.status
            /\ (txn'.warned # NoWarning) =>
                  /\ txn'.warned = [from |-> StatusOf(txn.subs), to |-> txn.status]
                  /\ txn.status \notin EXPECTED_TRANSITIONS(StatusOf(txn.subs))
       /\ (sweep.pc = "cancel" /\ sweep'.pc # "cancel") =>
            StatusOf(subscriptions') = "canceled"]_vars

\* a handler has applied a status change that is absent from the table
C18_Witness ==
    /\ txn.pc = "write_ents"
    /\ txn.warned # NoWarning
    /\ txn.warned.from \in Statuses
    /\ txn.warned.to \notin EXPECTED_TRANSITIONS(txn.warned.from)
    /\ StatusOf(txn.subs) = txn.warned.to
    /\ StatusOf(subscriptions) = txn.warned.from

\* C19 as claimed: the statuses incomplete_expired and canceled are terminal:
\* once a subscription's status is one of them, no event handler and no
\* sweep changes its status to a different value.
C19_TerminalNeverLeft ==
    [][StatusOf(subscriptions) \in TerminalStatuses
          => StatusOf(subscriptions') = StatusOf(subscriptions)]_vars

\* C19 amended: incomplete_expired and canceled have no expected outgoing
\* transition.  A status change out of them is applied all the same: by a
\* handler's commit, logged as unexpected by apply_new_status, or silently by
\* the update_or_create of HandleSubscriptionCreated; or by a periodic task
\* that had selected the subscription while its status was not terminal and
\* writes without a lock.
C19_TerminalByTable ==
    [][/\ \A t \in TerminalStatuses : EXPECTED_TRANSITIONS(t) = {}
       /\ (/\ StatusOf(subscriptions) \in TerminalStatuses
           /\ StatusOf(subscriptions') # StatusOf(subscriptions))
          => \/ /\ HandlerCommits
                /\ txn.handler # "HandleSubscriptionCreated"
                /\ txn.warned = [from |-> StatusOf(subscriptions),
                                 to |-> StatusOf(subscriptions')]
             \/ /\ HandlerCommits
                /\ txn.handler = "HandleSubscriptionCreated"
                /\ txn.warned = NoWarning
             \/ /\ sweep.pc \in {"cancel", "save"} /\ sweep'.pc # sweep.pc
                /\ sweep.read \notin TerminalStatuses
                /\ sweep.task = "lifecycle" => sweep.read \in {"past_due"}
                /\ sweep.task = "stale" =>
                      sweep.read \in {"active", "trialing", "past_due"}]_vars

\* a handler is about to commit a status change out of canceled
C19_Witness ==
    /\ txn.pc = "commit"
    /\ StatusOf(subscriptions) = "canceled"
    /\ StatusOf(txn.subs) = "active"
    /\ txn.warned = [from |-> "canceled", to |-> "active"]

\* C20: each subscription event handler applies the subscription
\* status/field update and the entitlement grant/revoke it triggers in one
\* transaction: if the handler fails at any point neither the subscription
\* row nor any entitlement row is changed, and no committed state has the
\* subscription updated while its entitlements are not yet reconciled.
C20_HandlerTransaction ==
    [][txn.pc # "idle" =>
        /\ (subscriptions' # subscriptions \/ entitlements' # entitlements)
             => /\ HandlerCommits
                /\ subscriptions' = txn.subs
                /\ entitlements' =
                     Reconcile(txn.handler, StatusOf(txn.subs), entitlements)
        /\ txn'.pc = "raised"
             => /\ subscriptions' = subscriptions
                /\ entitlements' = entitlements
                /\ txn'.exc # NoExc]_vars

\* a handler has failed after it had saved the subscription and changed the
\* entitlements inside its transaction
C20_Witness ==
    /\ txn.pc = "raised" /\ txn.exc = "Exception"
    /\ StatusOf(txn.subs) # StatusOf(subscriptions)
    /\ ActiveFeatures(txn.ents) # ActiveFeatures(entitlements)

\* C21: in every committed state, a subscription that is active (status in
\* {active, trialing, past_due}) has, as the active entitlements tied to it,
\* exactly the features that the feature-pricing map gives for its price.
C21_ActiveMatchesPlan ==
    \A row \in SubRows :
        is_active(row.status)
            => ActiveFeatures(entitlements) = get_features_for_price(row.stripe_price_id)

\* a call of an entitlement service has just returned
ServiceReturns(op) == ent_ops' = ent_ops + 1 /\ ent_last'.op = op
RowByPk(rows, pk) == {e \in rows : e.pk = pk}

\* C22: sync(subscription, desired) grants exactly desired - current and
\* revokes exactly current - desired, where current is the set of features
\* with an active entitlement tied to the subscription; afterwards the
\* subscription's active feature set equals desired, and the entitlements in
\* the intersection of current and desired are untouched (same row,
\* usage_count unchanged).
C22_SyncDiff ==
    [][ServiceReturns("sync_from_subscription") =>
        LET subscription == ent_last'.subscription
            desired == ent_last'.desired
            before == EntActive(ent_rows, subscription)
            after == EntActive(ent_rows', subscription)
            current == EntFeatures(before)
            granted == {e \in after : RowByPk(before, e.pk) = {}}
            revoked == {e \in before : RowByPk(after, e.pk) = {}}
        IN /\ EntFeatures(granted) = desired \ current
           /\ EntFeatures(revoked) = current \ desired
           /\ EntFeatures(after) = desired
           /\ \A e \in before : e.feature \in desired => e \in ent_rows'
           /\ \A e \in revoked : \E r \in RowByPk(ent_rows', e.pk) :
                 ~r.is_active /\ r.usage_count = e.usage_count
           /\ \A e \in ent_rows : e.subscription # subscription => e \in ent_rows'
       ]_vars

\* sync from {A, B} to {B, C}: A is revoked, C granted, and B, which has been
\* used, is still active with its usage_count
C22_Witness ==
    /\ ent_last.op = "sync_from_subscription"
    /\ ent_last.subscription = "sub_1"
    /\ ent_last.desired = {"B", "C"}
    /\ \E a \in ent_rows : \E b \in ent_rows : \E c \in ent_rows :
         /\ a.subscription = "sub_1" /\ a.feature = "A" /\ ~a.is_active
         /\ a.revoke_reason = "Feature removed from subscription plan"
         /\ a.revoked_at = ent_ops
         /\ b.subscription = "sub_1" /\ b.feature = "B" /\ b.is_active
         /\ b.usage_count = 1
         /\ c.subscription = "sub_1" /\ c.feature = "C" /\ c.is_active
         /\ c.pk > b.pk /\ c.pk > a.pk

\* C23: after any sequence of grant, revoke and sync operations there is at
\* most one entitlement row per (customer, feature, subscription), including
\* subscription = none: granting an already-active feature changes nothing,
\* and granting a revoked feature reactivates the same row (is_active=true,
\* revoked_at cleared) with its usage_count preserved.
C23_OneRowPerKey ==
    [][/\ \A e \in ent_rows' :
            EntLookup(ent_rows', e.customer, e.feature, e.subscription) = {e}
       /\ \A e \in ent_rows : Cardinality(RowByPk(ent_rows', e.pk)) = 1
       /\ \A e \in ent_rows : \A r \in RowByPk(ent_rows', e.pk) :
            (~e.is_active /\ r.is_active) =>
                r = [e EXCEPT !.is_active = TRUE, !.revoked_at = NotRevoked,
                              !.revoke_reason = "", !.granted_by = r.granted_by]
       /\ ServiceReturns("grant") =>
            LET found == EntLookup(ent_rows, ent_last'.customer, ent_last'.feature,
                                   ent_last'.subscription)
            IN /\ (\E e \in found : e.is_active) => ent_rows' = ent_rows
               /\ found = {} => Cardinality(ent_rows') = Cardinality(ent_rows) + 1
               /\ \A e \in found : ~e.is_active =>
                    /\ Cardinality(ent_rows') = Cardinality(ent_rows)
                    /\ \E r \in RowByPk(ent_rows', e.pk) :
                         /\ r.is_active /\ r.revoked_at = NotRevoked
                         /\ r.usage_count = e.usage_count
       ]_vars

\* a manual grant has re-activated the revoked row of a feature that had been
\* used
C23_Witness ==
    /\ ent_last.op = "grant" /\ ent_last.log = "Re-activated"
    /\ \E e \in ent_rows :
         /\ e.subscription = NoSubscription /\ e.feature = ent_last.feature
         /\ e.is_active /\ e.revoked_at = NotRevoked
         /\ e.usage_count = 1
    /\ Cardinality(ent_rows) = 1

\* C25: revoke_for_subscription(subscription, reason) sets every active
\* entitlement tied to that subscription to is_active=false with revoked_at
\* and the reason, returns their number, deletes no row, and leaves
\* entitlements tied to other subscriptions and entitlements with no
\* subscription unchanged.
C25_RevokeForSubscriptionFrame ==
    [][ServiceReturns("revoke_for_subscription") =>
        LET qs == EntActive(ent_rows, ent_last'.subscription) IN
        /\ ent_last'.ret = Cardinality(qs)
        /\ \A e \in qs :
             [e EXCEPT !.is_active = FALSE, !.revoked_at = ent_ops',
                       !.revoke_reason = ent_last'.reason] \in ent_rows'
        /\ \A e \in ent_rows \ qs : e \in ent_rows'
        /\ Cardinality(ent_rows') = Cardinality(ent_rows)
        /\ EntActive(ent_rows', ent_last'.subscription) = {}
       ]_vars

\* two entitlements of sub_1 have been revoked while sub_2 and the manual
\* grant keep theirs
C25_Witness ==
    /\ ent_last.op = "revoke_for_subscription"
    /\ ent_last.subscription = "sub_1"
    /\ ent_last.ret = 2
    /\ Cardinality({e \in ent_rows : /\ e.subscription = "sub_1"
                                     /\ e.revoked_at = ent_ops
                                     /\ e.revoke_reason = ent_last.reason}) = 2
    /\ EntActive(ent_rows, "sub_2") # {}
    /\ EntActive(ent_rows, NoSubscription) # {}

\* the active entitlements an updated event with this status and price calls for
CalledFor(status, price) == IF is_active(status) THEN EntPlan(price) ELSE {}

\* C24 as claimed: processing a subscription-updated event whose status
\* equals the subscription's current status (price unchanged) performs no
\* grant and no revoke: the set of entitlement rows and their is_active,
\* revoked_at and usage_count values are the same before and after.
C24_SameStatusNoOp ==
    [][(/\ ServiceReturns("HandleSubscriptionUpdated")
        /\ ent_last'.status = ent_sub.status
        /\ ent_last'.price = ent_sub.price)
       => ent_rows' = ent_rows]_vars

\* C24 amended: processing a subscription-updated event performs no grant
\* and no revoke exactly when the active entitlements tied to the
\* subscription already are the ones the event calls for (the features of
\* its price for an active status, none otherwise), as they are right after
\* the same event was processed; the stored status is not consulted, and an
\* event with the stored status and price still grants or revokes when the
\* entitlements differ.
C24_MatchingNoOp ==
    [][ServiceReturns("HandleSubscriptionUpdated") =>
        LET current == EntFeatures(EntActive(ent_rows, "sub_1"))
            called == CalledFor(ent_last'.status, ent_last'.price)
        IN /\ (current = called) <=> (ent_rows' = ent_rows)
           /\ EntFeatures(EntActive(ent_rows', "sub_1")) = called
           /\ \A e \in ent_rows : e.subscription # "sub_1" => e \in ent_rows'
           /\ \A e \in ent_rows : e.feature \in current \cap called => e \in ent_rows'
       ]_vars

\* an updated event with the stored status and price has been processed with
\* the plan's entitlements in place, one of them used
C24_Witness ==
    /\ ent_last.op = "HandleSubscriptionUpdated"
    /\ ent_last.was = [status |-> "active", price |-> "price_1"]
    /\ ent_last.status = "active" /\ ent_last.price = "price_1"
    /\ EntFeatures(EntActive(ent_rows, "sub_1")) = {"A", "B"}
    /\ \E e \in EntActive(ent_rows, "sub_1") : e.usage_count = 1
    /\ \A e \in ent_rows : e.revoked_at = NotRevoked

\* the committed state a handler produces when it runs alone
RunAlone(db, h) ==
    [row |-> SavedRow(conc_h[h].handler, conc_h[h].status, db.row, db.row),
     features |-> ReconciledFeatures(
                      conc_h[h].handler,
                      SavedRow(conc_h[h].handler, conc_h[h].status, db.row,
                               db.row).status)]

\* the states the handlers that committed produce, run one after the other
SerialResults ==
    LET committed == {h \in ConcHandlers : conc_h[h].pc = "done"} IN
    IF committed = {} THEN {conc_init}
    ELSE IF Cardinality(committed) = 1
    THEN {RunAlone(conc_init, h) : h \in committed}
    ELSE {RunAlone(RunAlone(conc_init, first), second) :
            <<first, second>> \in {<<a, b>> \in committed \X committed : a # b}}

\* C26: handlers that update the same subscription and run concurrently
\* (updated, deleted, paused, resumed for one subscription id) are
\* serialized by a row-level write lock held for the handler's whole
\* transaction: the resulting subscription and entitlement state equals the
\* state produced by running those handlers one after the other in some
\* order.
C26_HandlersSerialized ==
    /\ is_postgres =>
         Cardinality({h \in ConcHandlers :
                        conc_h[h].pc \in {"save", "reconcile", "commit"}}) <= 1
    /\ conc_db \in SerialResults

\* both handlers have committed: a pause, and an update that had to wait for
\* the row lock and so read paused_at as the pause set it
C26_Witness ==
    /\ is_postgres
    /\ conc_h["h1"].pc = "done" /\ conc_h["h1"].handler = "HandleSubscriptionPaused"
    /\ conc_h["h2"].pc = "done" /\ conc_h["h2"].handler = "HandleSubscriptionUpdated"
    /\ conc_init.row.status = "active"
    /\ conc_db.row = [status |-> "active", paused_at |-> TRUE]
    /\ conc_db.features # {}

\* the refunds applied so far, over all callers
RECURSIVE SumTotals(_)
SumTotals(rs) ==
    IF rs = {} THEN 0
    ELSE LET r == CHOOSE x \in rs : TRUE IN refunders[r].total + SumTotals(rs \ {r})

\* C27: after any sequence of refund operations on a purchase (direct calls
\* or charge-refunded events), amount_refunded never exceeds the purchase's
\* amount.
C27_RefundWithinAmount ==
    \A row \in purchases : row.amount_refunded <= row.amount

\* C28: after each refund, the purchase status is refunded exactly when the
\* cumulative amount_refunded has reached the purchase amount, and
\* partially_refunded otherwise; a purchase of 29.99 refunded 10.00 and then
\* 19.99 is partially_refunded with 10.00 after the first refund and refunded
\* with 29.99 after the second.
C28_RefundStatus ==
    [][\A r \in Refunders :
         (refunders[r].pc = "update" /\ refunders'[r].pc = "refresh") =>
           \A row \in purchases : \E after \in purchases' :
             /\ after.pk = row.pk
             /\ after.amount_refunded = row.amount_refunded + refunders[r].amount
             /\ after.status = IF after.amount_refunded >= after.amount
                               THEN "refunded" ELSE "partially_refunded"
             /\ (row.amount = 2999 /\ row.amount_refunded = 0
                 /\ refunders[r].amount = 1000)
                  => after.amount_refunded = 1000
                     /\ after.status = "partially_refunded"
             /\ (row.amount = 2999 /\ row.amount_refunded = 1000
                 /\ refunders[r].amount = 1999)
                  => after.amount_refunded = 2999 /\ after.status = "refunded"
      ]_vars

\* one caller has refunded 10.00 and then 19.99 of the purchase of 29.99
C28_Witness ==
    /\ refunders["r1"].runs = 2 /\ refunders["r1"].pc = "refresh"
    /\ refunders["r1"].amount = 1999 /\ refunders["r1"].total = 2999
    /\ refunders["r2"].runs = 0
    /\ \E row \in purchases :
         /\ row.amount = 2999 /\ row.amount_refunded = 2999
         /\ row.status = "refunded"

\* C29: two refunds applied concurrently to the same purchase are both
\* reflected: in every interleaving the final amount_refunded is the sum of
\* the two refund amounts and the final status is the one determined by that
\* sum (no lost update).
C29_NoLostUpdate ==
    \A row \in purchases :
        /\ row.amount_refunded = SumTotals(Refunders)
        /\ row.status =
             IF \A r \in Refunders : refunders[r].total = 0 THEN "paid"
             ELSE IF SumTotals(Refunders) >= row.amount THEN "refunded"
             ELSE "partially_refunded"

\* two callers loaded the purchase before either refund was applied; both
\* refunds, 10.00 and 19.99, are in the row
C29_Witness ==
    /\ refunders["r1"].pc = "refresh" /\ refunders["r1"].runs = 1
    /\ refunders["r2"].pc = "refresh" /\ refunders["r2"].runs = 1
    /\ refunders["r1"].seen = 0 /\ refunders["r2"].seen = 0
    /\ refunders["r1"].amount = 1000 /\ refunders["r2"].amount = 1999
    /\ \E row \in purchases :
         row.amount_refunded = 2999 /\ row.status = "refunded"

\* C30: after any sequence of invoice.paid and checkout.session.completed
\* events, duplicate and concurrent deliveries included, the table holds at
\* most one purchase per (invoice id, price id) line and at most one
\* purchase per checkout session id.
C30_OnePurchasePerKey ==
    \A r1 \in purchases, r2 \in purchases :
        (r1.pk # r2.pk) =>
            /\ ~(/\ r1.stripe_invoice_id # ""
                 /\ r1.stripe_invoice_id = r2.stripe_invoice_id
                 /\ r1.stripe_price_id = r2.stripe_price_id)
            /\ ~(/\ r1.stripe_checkout_session_id # ""
                 /\ r1.stripe_checkout_session_id
                        = r2.stripe_checkout_session_id)

\* a checkout session has its purchase, and of two concurrent deliveries of
\* an invoice one has returned and the other just lost the insert of a line
\* to it (IntegrityError): each line of the invoice has its one purchase
C30_Witness ==
    /\ \E r \in purchases : r.stripe_checkout_session_id # ""
    /\ \E b \in Buyers :
          /\ buyers[b].event.type = "invoice.paid"
          /\ buyers[b].met = "integrity"
          /\ \A o \in Buyers \ {b} :
                /\ buyers[o].pc = "idle"
                /\ buyers[o].event.id = buyers[b].event.id
          /\ \A i \in 1..Len(buyers[b].event.lines) :
                Cardinality(InvoiceLineRows(purchases, buyers[b].event.id,
                    buyers[b].event.lines[i].price_id)) = 1

\* C31: every authenticated delivery is acknowledged with HTTP 200, whether
\* the event is new, a duplicate found by the existence check or a duplicate
\* detected by the uniqueness violation on insert; a duplicate enqueues no
\* processing task, and no handler runs inside the ingestion call.
Answered(r) == requests[r].pc # "done" /\ requests'[r].pc = "done"

IndexIn(hs, name) == CHOOSE j \in 1..Len(hs) : hs[j] = name

InRegistrationOrder(calls, hs) ==
    /\ \A k \in 1..Len(calls) : \E j \in 1..Len(hs) : hs[j] = calls[k]
    /\ \A k, l \in 1..Len(calls) :
          k < l => IndexIn(hs, calls[k]) < IndexIn(hs, calls[l])

C32_DispatchInOrder ==
    [][/\ \A w \in Workers :
            LET wk == workers'[w]
                hs == handlers_for(wk.event.event_type)
            IN /\ wk.pc # "idle" => InRegistrationOrder(wk.calls, hs)
               /\ wk.pc = "mark_event"
                    => /\ wk.ret = Len(hs)
                       /\ wk.exc = NoExc
                       /\ passes'[wk.id] = 1 => wk.calls = hs
               /\ (wk.pc # "idle" /\ hs = <<>>)
                    => /\ wk.pc = "mark_event"
                       /\ wk.ret = 0
                       /\ wk.calls = <<>>
               /\ (workers[w].pc = "mark_event" /\ wk.pc = "idle")
                    => /\ \A e \in webhook_events' :
                             e.pk = workers[w].event.pk
                                => e.processed /\ e.processed_at
                       /\ invoked' = invoked
                       /\ lastPass'[workers[w].id] = "processed"
               /\ (/\ workers[w].pc = "handle"
                   /\ wk.pc = "mark_result"
                   /\ wk.calls[Len(wk.calls)] = "HandleSubscriptionUpdated")
                    => \A sub \in SubRows' : sub.status = wk.event.payload
       /\ LET hs == handlers_for(upass'.type) IN
          /\ upass'.pc \in {"run", "done"}
               => InRegistrationOrder(upass'.calls, hs)
          /\ (upass'.pc = "done" /\ upass'.exc = NoExc)
               => /\ upass'.ret = Len(hs)
                  /\ upass'.calls = hs]_vars

\* an event of a type nobody handles has been marked fully processed by its
\* first task run without any invocation, after an untracked pass over two
\* handlers
C32_Witness ==
    /\ ucount >= 1
    /\ \E e \in webhook_events :
          /\ handlers_for(e.event_type) = <<>>
          /\ e.processed
          /\ passes[e.stripe_event_id] = 1
          /\ lastPass[e.stripe_event_id] = "processed"
          /\ \A h \in HandlerNames : invoked[e.stripe_event_id][h] = 0

\* C33: a run of the processing task for an event that is already fully
\* processed invokes no handler and changes no state, and the processed flag
\* of an event, once true, never becomes false again.
StartsOn(m) ==
    /\ BagIn(m, queue)
    /\ queue' = queue (-) SetToBag({m})

C33_ProcessedIsFinal ==
    [][/\ \A m \in BagToSet(queue) :
            (StartsOn(m) /\ \E e \in EventRows(m.id) : e.processed)
               => /\ workers' = workers
                  /\ passes' = passes
                  /\ invoked' = invoked
                  /\ webhook_events' = webhook_events
                  /\ handler_results' = handler_results
                  /\ subscriptions' = subscriptions
                  /\ entitlements' = entitlements
                  /\ ledger' = ledger
       /\ \A e \in webhook_events : \A f \in webhook_events' :
            (e.pk = f.pk /\ e.processed) => (f.processed /\ f.processed_at)]_vars

\* the task has run for an event that was already fully processed
C33_Witness ==
    \E e \in webhook_events :
        /\ e.processed
        /\ lastPass[e.stripe_event_id] = "already"
        /\ passes[e.stripe_event_id] >= 1

\* C34: whenever an event is marked fully processed, every handler
\* registered for its event type has a result row for the event with
\* processed = TRUE.
HasCompletedRow(e, name) ==
    \E r \in handler_results :
        /\ r.event = e.pk /\ r.handler_name = name /\ r.processed

C34_ProcessedMeansAllCompleted ==
    \A e \in webhook_events :
        e.processed =>
            \A i \in 1..Len(handlers_for(e.event_type)) :
                HasCompletedRow(e, handlers_for(e.event_type)[i])

\* C34 as the code has it: an event marked fully processed after dispatch
\* returned has a completed row for every handler of its type; an event
\* marked fully processed because a handler raised WebhookSkip has completed
\* rows for the handlers before that handler, an incomplete row for it and
\* no completed row after it.
C34_CompletedUnlessSkipped ==
    \A e \in webhook_events :
        e.processed =>
            LET hs == handlers_for(e.event_type)
                id == e.stripe_event_id
            IN IF lastPass[id] \in {"skipped", "skipped_not_found"}
               THEN \E i \in 1..Len(hs) :
                      /\ \A j \in 1..(i - 1) : HasCompletedRow(e, hs[j])
                      /\ \E r \in handler_results :
                            /\ r.event = e.pk /\ r.handler_name = hs[i]
                            /\ ~r.processed
                      /\ failed[id][hs[i]] >= 1
                      /\ \A j \in i..Len(hs) : ~HasCompletedRow(e, hs[j])
               ELSE \A i \in 1..Len(hs) : HasCompletedRow(e, hs[i])

\* an event with two handlers is fully processed: the first handler
\* completed and the second raised WebhookSkip, its row is incomplete
C34_Witness ==
    \E e \in webhook_events :
        /\ e.processed
        /\ Len(handlers_for(e.event_type)) = 2
        /\ lastPass[e.stripe_event_id] = "skipped"
        /\ HasCompletedRow(e, handlers_for(e.event_type)[1])
        /\ ~HasCompletedRow(e, handlers_for(e.event_type)[2])

\* C35: for every scheduled event, attempts never exceeds max_attempts, under
\* any interleaving of concurrent poller runs, also when a run claims the
\* row after another run released its lock and before that run recorded its
\* failure.
C35_AttemptsCapped ==
    \A e \in scheduled_events : e.attempts <= max_attempts

\* C40: within one poller run, a claimed row whose dispatch raises does not
\* prevent the remaining claimed rows from being dispatched, and the rows
\* that succeeded in the run are still committed as processed.
DispatchRaises(p) ==
    /\ DispatchStep(p)
    /\ Len(pollers'[p].failed_events) = Len(pollers[p].failed_events) + 1
    /\ pollers'[p].failed_events[Len(pollers'[p].failed_events)].err \in Errors

CommitStep(p) ==
    /\ pollers[p].pc = "commit" /\ pollers'[p].pc # "commit"
    /\ ~pollers[p].broken
    /\ ~OtherReader(p)

C40_FailureKeepsRun ==
    [][\A p \in Pollers :
        LET wk == pollers[p] IN
        /\ DispatchRaises(p)
             => /\ pollers'[p].pending = wk.pending
                /\ pollers'[p].saved = wk.saved
                /\ pollers'[p].broken = wk.broken
                /\ scheduled_events' = scheduled_events
                /\ wk.i < Len(wk.pending) => pollers'[p].pc = "dispatch"
        /\ CommitStep(p)
             => /\ \A k \in wk.saved :
                      \E row \in scheduled_events' :
                         /\ row.pk = wk.pending[k].pk
                         /\ row.processed /\ row.processed_at
                         /\ row.attempts = wk.pending[k].attempts + 1
                /\ wk.failed_events # <<>> => pollers'[p].pc = "record"]_vars

\* a run claimed two rows: the dispatch of the first raised, the second was
\* dispatched and saved, and the run has committed it as processed
C40_Witness ==
    \E p \in Pollers :
        /\ pollers[p].pc = "record"
        /\ Len(pollers[p].pending) = 2
        /\ pollers[p].saved = {2}
        /\ Len(pollers[p].failed_events) = 1
        /\ pollers[p].failed_events[1].idx = 1
        /\ pollers[p].failed_events[1].err \in Errors
        /\ \E row \in scheduled_events :
              row.pk = pollers[p].pending[2].pk /\ row.processed
        /\ \E row \in scheduled_events :
              row.pk = pollers[p].pending[1].pk /\ ~row.processed

\* C39: for an entitlement with a usage_limit, usage_count never exceeds
\* usage_limit after any sequence or interleaving of increment_usage calls;
\* a call made when usage_count >= usage_limit returns false and leaves
\* usage_count unchanged, and any other call increases it by exactly 1.
Returns(c) == usage.calls[c].pc = "loaded" /\ usage'.calls[c].pc = "idle"

C39_UsageWithinLimit ==
    usage.row.usage_limit # 0
        => usage.row.usage_count <= usage.row.usage_limit

\* C39, the contract of one call against the stored row
C39_CallContract ==
    [][\A c \in UsageCallers :
        Returns(c) =>
            IF /\ usage.row.usage_limit # 0
               /\ usage.row.usage_count >= usage.row.usage_limit
            THEN /\ usage'.calls[c].ret = "False"
                 /\ usage'.row = usage.row
            ELSE /\ usage'.calls[c].ret = "True"
                 /\ usage'.row.usage_count = usage.row.usage_count + 1]_vars

\* C36: in every committed state reachable through the event handlers, the
\* lifecycle sweep and the stale-subscription reconciliation, a subscription
\* whose status is not active, trialing or past_due has no active
\* entitlement tied to it.
C36_InactiveHasNoEntitlement ==
    \A sub \in SubRows :
        ~is_active(sub.status) => ActiveFeatures(entitlements) = {}

\* C37: every event row stored by ingestion gets a processing task: once the
\* ingestion call that created the row has ended, normally or by a failure
\* between the insert and the enqueue, there is no state in which the event
\* is stored unprocessed and no processing task was ever enqueued for it,
\* also after later redeliveries of the event.
IngestionOpen(id) ==
    \E r \in Requests :
        requests[r].id = id /\ requests[r].pc \in {"create", "created"}

C37_StoredEventHasTask ==
    \A id \in EventIds :
        (/\ \E e \in EventRows(id) : ~e.processed
         /\ ~IngestionOpen(id))
            => enqueued[id] >= 1

\* C38: given the same set of received events for one subscription, the final
\* subscription status, price and active entitlement set are the same for
\* every order in which the events are processed.
Outcome(st) ==
    [status |-> st.sub.status, price |-> st.sub.price,
     features |-> EntFeatures(EntActive(st.rows, "sub_1"))]

C38_OrderIndependent ==
    replay.pc = "processed" => Outcome(replay.fwd) = Outcome(replay.rev)

====
